---- MODULE Spec2Model ----
(***************************************************************************)
(* Conversation-state management and streaming-response decoding of        *)
(* revChatGPT V1 (src/src/revChatGPT/V1.py): the synchronous Chatbot and   *)
(* the AsyncChatbot that derives from it.                                  *)
(*                                                                         *)
(* Byte strings and text are TLA+ strings; Python's None is the value      *)
(* None below.  Identifiers handed out by the server (conversation ids,    *)
(* message ids, history nodes) are non-empty strings.                      *)
(***************************************************************************)
EXTENDS Integers, Sequences, FiniteSets, TLC

(***************************************************************************)
(* Bounds of the model.                                                    *)
(***************************************************************************)
\* Requests sent to the conversation endpoint in one behaviour.
MaxRequests == 2
\* Raw lines read from one response stream.
MaxLines == 2
\* Calls of uuid.uuid4() in one behaviour.
MaxUuid == 3
\* Rollbacks in a row on the client of asyncChatGPT.
MaxRolls == 2
\* Messages held by the conversations of V2.
MaxMessages == 3

(***************************************************************************)
(* Python values.                                                          *)
(***************************************************************************)
None == "<None>"

\* Python truthiness of an optional string: None and "" are falsy.
Truthy(v) == v # None /\ v # ""

\* Python's `a or b` on optional strings.
Or(a, b) == IF Truthy(a) THEN a ELSE b

\* str(uuid.uuid4()): the n-th identifier generated locally.
\* A generator of ids that returns the empty string.
NoUuid(n) == ""

uuid4(n) == "uuid-" \o ToString(n)

(***************************************************************************)
(* Python string operations used by the decoders.                          *)
(***************************************************************************)
\* s[n:]
DropFirst(s, n) == SubSeq(s, n + 1, Len(s))

\* sub in s
Contains(s, sub) ==
    \E i \in 1..(Len(s) - Len(sub) + 1) : SubSeq(s, i, i + Len(sub) - 1) = sub

UpperCase == "ABCDEFGHIJKLMNOPQRSTUVWXYZ"
LowerCase == "abcdefghijklmnopqrstuvwxyz"

LowerChar(c) ==
    IF \E i \in 1..Len(UpperCase) : SubSeq(UpperCase, i, i) = c
    THEN LET i == CHOOSE j \in 1..Len(UpperCase) : SubSeq(UpperCase, j, j) = c
         IN  SubSeq(LowerCase, i, i)
    ELSE c

\* s.lower(), by halves.
RECURSIVE Lower(_)
Lower(s) ==
    IF Len(s) <= 1 THEN LowerChar(s)
    ELSE LET h == Len(s) \div 2
         IN  Lower(SubSeq(s, 1, h)) \o Lower(DropFirst(s, h))

\* The first index at which sub occurs in s (Contains(s, sub) holds).
Find(s, sub) ==
    CHOOSE i \in 1..(Len(s) - Len(sub) + 1) :
        /\ SubSeq(s, i, i + Len(sub) - 1) = sub
        /\ \A j \in 1..(i - 1) : SubSeq(s, j, j + Len(sub) - 1) # sub

\* s.replace(old, new): every non-overlapping occurrence, left to right.
RECURSIVE Replace(_, _, _)
Replace(s, old, new) ==
    IF ~Contains(s, old) THEN s
    ELSE LET i == Find(s, old)
         IN  SubSeq(s, 1, i - 1) \o new \o Replace(DropFirst(s, i - 1 + Len(old)), old, new)

\* s.strip("\n"): newline characters removed from both ends.
RECURSIVE LStripNewlines(_)
LStripNewlines(s) ==
    IF s # "" /\ SubSeq(s, 1, 1) = "\n" THEN LStripNewlines(DropFirst(s, 1)) ELSE s

RECURSIVE RStripNewlines(_)
RStripNewlines(s) ==
    IF s # "" /\ SubSeq(s, Len(s), Len(s)) = "\n"
    THEN RStripNewlines(SubSeq(s, 1, Len(s) - 1))
    ELSE s

StripNewlines(s) == RStripNewlines(LStripNewlines(s))

\* The body of repr(bytes): a backslash is doubled, and the quote character
\* that delimits the literal is escaped (printable ASCII only).
RECURSIVE ReprBody(_, _)
ReprBody(b, quote) ==
    IF b = "" THEN ""
    ELSE IF Len(b) = 1
         THEN (IF b = "\\" THEN "\\\\" ELSE IF b = quote THEN "\\" \o b ELSE b)
         ELSE LET h == Len(b) \div 2
              IN  ReprBody(SubSeq(b, 1, h), quote) \o ReprBody(DropFirst(b, h), quote)

\* str(line) of a bytes object: b'...' unless the bytes hold a single quote
\* and no double quote, then b"...".
PyStrBytes(b) ==
    LET quote == IF Contains(b, "'") /\ ~Contains(b, "\"") THEN "\"" ELSE "'"
    IN  "b" \o quote \o ReprBody(b, quote) \o quote

(***************************************************************************)
(* The events of a response stream.  An event is the JSON value of one     *)
(* line; Dumps is its text on the wire and JsonLoads is json.loads on the  *)
(* texts of JsonValues (every other text of the model is not JSON).        *)
(***************************************************************************)
Absent == "<absent>"

\* A JSON object with message.content, as the backend sends for one update
\* of a message.
MessageEvent(role, cid, id, parts, finish, slug, end_turn, recipient) ==
    [shape |-> "message", role |-> role, conversation_id |-> cid, id |-> id,
     parts |-> parts, finish |-> finish, slug |-> slug, end_turn |-> end_turn,
     recipient |-> recipient]

\* JSON values without message.content.
OtherEvent(shape, cid) ==
    [shape |-> shape, role |-> Absent, conversation_id |-> cid, id |-> Absent,
     parts |-> "", finish |-> Absent, slug |-> Absent, end_turn |-> Absent,
     recipient |-> Absent]

\* The text of a JSON string holding s.
RECURSIVE JsonEscape(_)
JsonEscape(s) ==
    IF s = "" THEN ""
    ELSE IF Len(s) = 1
         THEN (IF s = "\n" THEN "\\n"
               ELSE IF s = "\"" THEN "\\\""
               ELSE IF s = "\\" THEN "\\\\"
               ELSE s)
         ELSE LET h == Len(s) \div 2
              IN  JsonEscape(SubSeq(s, 1, h)) \o JsonEscape(DropFirst(s, h))

JsonString(s) == "\"" \o JsonEscape(s) \o "\""

DumpsMetadata(ev) ==
    LET slug == IF ev.slug = Absent THEN <<>>
                ELSE <<"\"model_slug\": " \o JsonString(ev.slug)>>
        fin  == IF ev.finish = Absent THEN <<>>
                ELSE <<"\"finish_details\": {\"type\": " \o JsonString(ev.finish) \o "}">>
        both == slug \o fin
    IN  IF both = <<>> THEN ""
        ELSE ", \"metadata\": {" \o both[1]
             \o (IF Len(both) = 2 THEN ", " \o both[2] ELSE "") \o "}"

Dumps(ev) ==
    CASE ev.shape = "scalar" -> "500"
      [] ev.shape = "no_message" -> "{\"detail\": \"Too many requests\"}"
      [] ev.shape = "null_message" ->
            "{\"message\": null, \"conversation_id\": "
            \o JsonString(ev.conversation_id) \o ", \"error\": \"failed\"}"
      [] ev.shape = "no_content" ->
            "{\"message\": {\"id\": \"m0\"}, \"conversation_id\": "
            \o JsonString(ev.conversation_id) \o "}"
      [] ev.shape = "message" ->
            "{\"message\": {\"id\": " \o JsonString(ev.id)
            \o ", \"author\": {\"role\": " \o JsonString(ev.role) \o "}"
            \o ", \"content\": {\"content_type\": \"text\", \"parts\": ["
            \o JsonString(ev.parts) \o "]}"
            \o (IF ev.end_turn = Absent THEN ""
                ELSE ", \"end_turn\": " \o ev.end_turn)
            \o (IF ev.recipient = Absent THEN ""
                ELSE ", \"recipient\": " \o JsonString(ev.recipient))
            \o DumpsMetadata(ev)
            \o "}, \"conversation_id\": " \o JsonString(ev.conversation_id) \o "}"

\* Assistant updates: conversation id, message id, text so far, finish type.
Hi(cid, id) == MessageEvent("assistant", cid, id, "Hi", Absent, Absent, Absent, Absent)
Stop(cid, id) == MessageEvent("assistant", cid, id, "Hi there", "stop", "m1", Absent, Absent)
Cut(cid, id) == MessageEvent("assistant", cid, id, "\nHello \n", "max_tokens", "m1", Absent, Absent)

Cids == {"c1", "c2"}
Mids == {"p1", "p2"}

\* The echo of the user's own message.
UserEcho == MessageEvent("user", "c1", "p0", "Hi", Absent, Absent, Absent, Absent)
\* An update sent to a tool, not to the user.
ToolCall == MessageEvent("assistant", "c1", "p1", "go", Absent, Absent, "false", "browser")
\* Assistant updates whose text holds the stream's own markers.
SaysDone == MessageEvent("assistant", "c2", "p2", "type [DONE] to end", "stop", Absent, Absent, Absent)
SaysData == MessageEvent("assistant", "c2", "p2", "the data: x", "stop", Absent, Absent, Absent)

JsonValues ==
    {Hi(c, m) : c \in Cids, m \in Mids} \cup {Stop(c, m) : c \in Cids, m \in Mids}
    \cup {Cut(c, m) : c \in Cids, m \in Mids}
    \cup {UserEcho, ToolCall, SaysDone, SaysData}
    \cup {OtherEvent(s, "c1") : s \in {"scalar", "no_message", "null_message", "no_content"}}

JSONDecodeError == OtherEvent("JSONDecodeError", None)

RECURSIVE StripSpaces(_)
StripSpaces(s) ==
    IF s # "" /\ SubSeq(s, 1, 1) = " " THEN StripSpaces(DropFirst(s, 1))
    ELSE IF s # "" /\ SubSeq(s, Len(s), Len(s)) = " "
         THEN StripSpaces(SubSeq(s, 1, Len(s) - 1))
         ELSE s

\* json.loads(text): the value whose text it is, white space around it
\* ignored; JSONDecodeError for every other text.
JsonLoads(text) ==
    LET t == StripSpaces(text)
    IN  IF \E ev \in JsonValues : Dumps(ev) = t
        THEN CHOOSE ev \in JsonValues : Dumps(ev) = t
        ELSE JSONDecodeError

(***************************************************************************)
(* The per-line step of the two stream decoders.                           *)
(***************************************************************************)
NoDelta ==
    [message |-> "", conversation_id |-> None, parent_id |-> None, model |-> None,
     finish_details |-> None, end_turn |-> TRUE, recipient |-> ""]

\* What one raw line does to the loop: the kind of step, and the delta it
\* yields when the kind is "delta".
Step(kind, delta) == [kind |-> kind, delta |-> delta]

check_fields(data) == data.shape = "message"

\* The dict yielded for an event that passed check_fields.
DeltaOf(ev) ==
    [message |-> ev.parts,
     conversation_id |-> ev.conversation_id,
     parent_id |-> ev.id,
     model |-> IF ev.slug = Absent THEN None ELSE ev.slug,
     finish_details |-> IF ev.finish = Absent THEN None ELSE ev.finish,
     end_turn |-> IF ev.end_turn = Absent THEN TRUE ELSE ev.end_turn = "true",
     recipient |-> IF ev.recipient = Absent THEN "all" ELSE ev.recipient]

\* if "data: " in line: line = line[6:]
StripData(line) == IF Contains(line, "data: ") THEN DropFirst(line, 6) ELSE line

\* The three replace calls that undo the escapes of str(bytes).
Unescape(line) ==
    Replace(Replace(Replace(line, "\\\"", "\""), "\\'", "'"), "\\\\", "\\")

\* An end-of-stream test that no line passes.
NeverDone(line) == FALSE

\* The end-of-stream test of the synchronous loop.
ChatbotIsDone(line) == line = "[DONE]"

\* A loop that passes over an event without message.content.
SkipsMalformed(ev) ==
    IF ~check_fields(ev) \/ ev.role # "assistant" THEN Step("skip", NoDelta)
    ELSE Step("delta", DeltaOf(ev))

\* What the synchronous loop does with an event that json.loads returned.
ChatbotEvent(ev) ==
    IF ~check_fields(ev) THEN Step("ValueError", NoDelta)
    ELSE IF ev.role # "assistant" THEN Step("skip", NoDelta)
    ELSE Step("delta", DeltaOf(ev))

\* A loop that takes the server's error text for a line like any other.
NoServerError(raw) ==
    LET str  == PyStrBytes(raw)
        line == SubSeq(str, 3, Len(str) - 1)
    IN  IF line = "" THEN Step("skip", NoDelta)
        ELSE LET data == StripData(line)
             IN  IF ChatbotIsDone(data) THEN Step("done", NoDelta)
                 ELSE LET ev == JsonLoads(Unescape(data))
                      IN  IF ev = JSONDecodeError THEN Step("skip", NoDelta)
                          ELSE ChatbotEvent(ev)

\* One iteration of the loop of Chatbot.__send_request on the bytes `raw`.
ChatbotLine(raw) ==
    LET str  == PyStrBytes(raw)
        line == SubSeq(str, 3, Len(str) - 1)
    IN  IF Lower(line) = "internal server error" THEN Step("ServerError", NoDelta)
        ELSE IF line = "" THEN Step("skip", NoDelta)
        ELSE LET data == StripData(line)
             IN  IF ChatbotIsDone(data) THEN Step("done", NoDelta)
                 ELSE LET ev == JsonLoads(Unescape(data))
                      IN  IF ev = JSONDecodeError THEN Step("skip", NoDelta)
                          ELSE ChatbotEvent(ev)

\* The end-of-stream test of the asynchronous loop.
AsyncIsDone(line) == Contains(line, "[DONE]")

\* One iteration of the loop of AsyncChatbot.__send_request on the text `raw`.
AsyncLine(raw) ==
    IF raw = "" THEN Step("skip", NoDelta)
    ELSE LET data == StripData(raw)
         IN  IF AsyncIsDone(data) THEN Step("done", NoDelta)
             ELSE LET ev == JsonLoads(data)
                  IN  IF ev = JSONDecodeError THEN Step("skip", NoDelta)
                      ELSE IF ~check_fields(ev) THEN Step("ValueError", NoDelta)
                      ELSE Step("delta", DeltaOf(ev))

(***************************************************************************)
(* Raw lines a response stream may carry.                                  *)
(***************************************************************************)
Data(ev) == "data: " \o Dumps(ev)

DoneLine == "data: [DONE]"

\* Lines that a decoder has to tell apart: markers, noise, broken events,
\* and events whose text or framing holds a marker.
DecoderLines ==
    { "", DoneLine, "[DONE]", "Internal Server Error", "internal server error",
      ": ping", "data: {\"message\": {\"id\": \"p1\", \"auth",
      Data(Hi("c1", "p1")), Data(Stop("c1", "p2")), Data(Cut("c2", "p1")),
      Dumps(Hi("c2", "p2")),
      Data(UserEcho), Data(ToolCall),
      Data(SaysDone), Data(SaysData), Dumps(SaysData),
      "event: data: [DONE]" }
    \cup {Data(OtherEvent(sh, "c1")) : sh \in {"scalar", "no_message", "null_message", "no_content"}}

\* Lines of an exchange: two updates with different ids, the second cut at
\* max_tokens, the end marker and an event that reports a failure.
SessionLines ==
    {DoneLine, Data(Hi("c1", "p1")), Data(Cut("c2", "p2")),
     Data(OtherEvent("null_message", "c1"))}

WireLines == DecoderLines \cup SessionLines

\* The decoders, tabulated over the lines of the model.
ChatbotDecoded == [raw \in WireLines |-> ChatbotLine(raw)]
AsyncDecoded == [raw \in WireLines |-> AsyncLine(raw)]

(***************************************************************************)
(* The session: one Chatbot or AsyncChatbot object, the generator of the   *)
(* call in progress, and what the caller and the server have seen of it.   *)
(***************************************************************************)
VARIABLES
    client,                     \* "Chatbot" or "AsyncChatbot"
    lazy_loading,               \* self.lazy_loading
    config,                     \* self.config: [model, paid]
    conversation_id,            \* self.conversation_id
    parent_id,                  \* self.parent_id
    conversation_mapping,       \* self.conversation_mapping
    conversation_id_prev_queue, \* self.conversation_id_prev_queue
    parent_id_prev_queue,       \* self.parent_id_prev_queue
    uuids,                      \* calls of uuid.uuid4() so far
    requests,                   \* requests sent to the conversation endpoint so far
    pushers,                    \* for each entry of the two queues, the number of
                                \* the request that appended it
    pc,                         \* "idle", "streaming" inside __send_request's loop, "ended"
    call,                       \* the last call and its arguments
    pre,                        \* the fields of the object when the last call began
    gen,                        \* the locals of the running __send_request,
                                \* and the responses it has not released
    yielded,                    \* the deltas the last call has handed to its caller
    wire,                       \* the raw lines the last call has read, and what each did
    last,                       \* the raw line read last and what it did
    fetched,                    \* history and listing requests made by the last call
    result,                     \* how the last call ended, "running" while it has not
    prev,                       \* what the caller kept of the call before the last
    bots,                       \* two Chatbot objects side by side, and their calls
    legacy,                     \* an asyncChatGPT.Chatbot
    conversations               \* a V2 Conversations

vars == <<client, lazy_loading, config, conversation_id, parent_id,
          conversation_mapping, conversation_id_prev_queue, parent_id_prev_queue,
          uuids, requests, pushers, pc, call, pre, gen, yielded, wire, last, fetched,
          result, prev, bots, legacy, conversations>>

object == <<client, lazy_loading, config>>

\* The objects of the other classes, which no method of this one touches.
others == <<bots, legacy, conversations>>

session == <<conversation_id, parent_id, conversation_mapping,
             conversation_id_prev_queue, parent_id_prev_queue, pushers>>

\* A function as a dict: d[k] = v.
SetItem(d, k, v) == (k :> v) @@ d

EmptyDict == [k \in {} |-> None]

\* What the server holds: the current node of each conversation it knows.
ServerHistory == ("c1" :> "n1")

\* The answers of the history and listing endpoints: failing, or serving
\* ServerHistory.
Servers == {"down", "up"}

NoCall == [op |-> "none", conversation_id |-> None, parent_id |-> None,
           model |-> None, auto_continue |-> FALSE, num |-> 0]

NoData == [action |-> "none", messages |-> Absent, conversation_id |-> None,
           parent_message_id |-> None, model |-> None]

NoGen == [data |-> NoData, cid |-> None, pid |-> None, model |-> None,
          message |-> "", finish_details |-> None, auto_continue |-> FALSE,
          prefix |-> "", stream |-> 0, lines |-> 0, open |-> 0]

NoLine == [raw |-> "", kind |-> "none"]

NoPushers == [conversation_id |-> <<>>, parent_id |-> <<>>]

NoSnapshot ==
    [conversation_id |-> None, parent_id |-> None, conversation_mapping |-> EmptyDict,
     conversation_id_prev_queue |-> <<>>, parent_id_prev_queue |-> <<>>,
     uuids |-> 0, requests |-> 0, pushers |-> NoPushers]

(***************************************************************************)
(* Resolution of the conversation id and the parent id of a request.       *)
(***************************************************************************)
\* The fields of the object that a call reads and writes, as a record.
Self ==
    [conversation_id |-> conversation_id, parent_id |-> parent_id,
     conversation_mapping |-> conversation_mapping,
     conversation_id_prev_queue |-> conversation_id_prev_queue,
     parent_id_prev_queue |-> parent_id_prev_queue,
     uuids |-> uuids, requests |-> requests, pushers |-> pushers]

\* What resolution leaves: the error raised ("none" when it returned), the
\* ids of the payload, and the fields of the object it wrote.
Resolved(error, cid, pid, self_parent_id, mapping, n, gets) ==
    [error |-> error, conversation_id |-> cid, parent_id |-> pid,
     self_parent_id |-> self_parent_id, conversation_mapping |-> mapping,
     uuids |-> n, fetched |-> gets]

\* __map_conversations once the listing and every history have arrived.
map_conversations(mapping) ==
    [k \in DOMAIN ServerHistory \cup DOMAIN mapping |->
        IF k \in DOMAIN ServerHistory THEN ServerHistory[k] ELSE mapping[k]]

\* with contextlib.suppress(Exception): the history of one conversation.
lazy_fetch(mapping, cid, server) ==
    IF server = "up" /\ cid \in DOMAIN ServerHistory
    THEN SetItem(mapping, cid, ServerHistory[cid])
    ELSE mapping

\* A switch that keeps the parent_id of the conversation left.
KeepsParent(self, cidArg) == self.parent_id

\* if conversation_id and conversation_id != self.conversation_id:
\*     self.parent_id = None
SwitchParent(self, cidArg) ==
    IF Truthy(cidArg) /\ cidArg # self.conversation_id THEN None ELSE self.parent_id

\* A resolution that generates no id.
KeepsEmpty(cid, pid, n) == pid

\* if not conversation_id and not parent_id: parent_id = str(uuid.uuid4())
NewParent(cid, pid, n) == IF ~Truthy(cid) /\ ~Truthy(pid) THEN uuid4(n) ELSE pid

\* A check of the arguments that lets every combination pass.
NoUsageError(cidArg, pidArg) == FALSE

\* A mapping that is never consulted.
NeverKnown(self, cid) == FALSE

\* if parent_id and not conversation_id: raise t.Error(...)
UsageError(cidArg, pidArg) == Truthy(pidArg) /\ ~Truthy(cidArg)

\* if conversation_id not in self.conversation_mapping: the test, negated.
Known(self, cid) == cid \in DOMAIN self.conversation_mapping

\* The branch `if conversation_id and not parent_id` of Chatbot.post_messages
\* and Chatbot.continue_write.
ChatbotLookup(self, lazy, cid, self_pid, server) ==
    LET known  == Known(self, cid)
        failed == ~known /\ ~lazy /\ server = "down"
        m      == IF known THEN self.conversation_mapping
                  ELSE IF lazy THEN lazy_fetch(self.conversation_mapping, cid, server)
                  ELSE map_conversations(self.conversation_mapping)
        gets   == IF known THEN 0
                  ELSE IF lazy THEN 1
                  ELSE 1 + Cardinality(DOMAIN ServerHistory)
    IN  IF failed
        THEN Resolved("HTTPError", cid, "", self_pid, self.conversation_mapping,
                      self.uuids, 1)
        ELSE IF cid \in DOMAIN m
        THEN Resolved("none", cid, m[cid], self_pid, m, self.uuids, gets)
        ELSE Resolved("none", None, uuid4(self.uuids), self_pid, m, self.uuids + 1, gets)

\* A resolution that takes the parent from the mapping whenever the mapping
\* knows the conversation.
MappingFirst(self, lazy, cidArg, pidArg, server) ==
    IF UsageError(cidArg, pidArg)
    THEN Resolved("UsageError", cidArg, pidArg, self.parent_id,
                  self.conversation_mapping, self.uuids, 0)
    ELSE LET self_pid == SwitchParent(self, cidArg)
             cid == Or(cidArg, self.conversation_id)
             pid == Or(Or(pidArg, self_pid), "")
         IN  IF Truthy(cid) /\ (~Truthy(pid) \/ Known(self, cid))
             THEN ChatbotLookup(self, lazy, cid, self_pid, server)
             ELSE Resolved("none", cid, NewParent(cid, pid, self.uuids), self_pid,
                           self.conversation_mapping,
                           IF NewParent(cid, pid, self.uuids) = pid
                           THEN self.uuids ELSE self.uuids + 1, 0)

\* Chatbot.post_messages and Chatbot.continue_write up to the payload.
ChatbotResolve(self, lazy, cidArg, pidArg, server) ==
    IF UsageError(cidArg, pidArg)
    THEN Resolved("UsageError", cidArg, pidArg, self.parent_id,
                  self.conversation_mapping, self.uuids, 0)
    ELSE LET self_pid == SwitchParent(self, cidArg)
             cid == Or(cidArg, self.conversation_id)
             pid == Or(Or(pidArg, self_pid), "")
         IN  IF Truthy(cid) /\ ~Truthy(pid)
             THEN ChatbotLookup(self, lazy, cid, self_pid, server)
             ELSE Resolved("none", cid, NewParent(cid, pid, self.uuids), self_pid,
                           self.conversation_mapping,
                           IF NewParent(cid, pid, self.uuids) = pid
                           THEN self.uuids ELSE self.uuids + 1, 0)

\* The branch `if conversation_id and not parent_id` of
\* AsyncChatbot.post_messages and AsyncChatbot.continue_write.
AsyncLookup(self, cid, self_pid, server) ==
    LET known  == Known(self, cid)
        m      == IF known THEN self.conversation_mapping
                  ELSE map_conversations(self.conversation_mapping)
        gets   == IF known THEN 0 ELSE 1 + Cardinality(DOMAIN ServerHistory)
    IN  IF ~known /\ server = "down"
        THEN Resolved("HTTPError", cid, "", self_pid, self.conversation_mapping,
                      self.uuids, 1)
        ELSE IF cid \in DOMAIN m
        THEN Resolved("none", cid, m[cid], self_pid, m, self.uuids, gets)
        ELSE Resolved("KeyError", cid, "", self_pid, m, self.uuids, gets)

\* AsyncChatbot.post_messages and AsyncChatbot.continue_write up to the payload.
AsyncResolve(self, cidArg, pidArg, server) ==
    IF UsageError(cidArg, pidArg)
    THEN Resolved("UsageError", cidArg, pidArg, self.parent_id,
                  self.conversation_mapping, self.uuids, 0)
    ELSE LET self_pid == SwitchParent(self, cidArg)
             cid == Or(cidArg, self.conversation_id)
             pid == Or(Or(pidArg, self_pid), "")
         IN  IF Truthy(cid) /\ ~Truthy(pid)
             THEN AsyncLookup(self, cid, self_pid, server)
             ELSE Resolved("none", cid, NewParent(cid, pid, self.uuids), self_pid,
                           self.conversation_mapping,
                           IF NewParent(cid, pid, self.uuids) = pid
                           THEN self.uuids ELSE self.uuids + 1, 0)

\* A choice that lets the configured model win over the argument.
ConfigFirst(modelArg, cfg) ==
    Or(Or(cfg.model, modelArg),
       IF cfg.paid THEN "text-davinci-002-render-paid" ELSE "text-davinci-002-render-sha")

\* model or self.config.get("model") or the default of the plan.
PayloadModel(modelArg, cfg) ==
    Or(Or(modelArg, cfg.model),
       IF cfg.paid THEN "text-davinci-002-render-paid" ELSE "text-davinci-002-render-sha")

(***************************************************************************)
(* A request: resolution, the payload, the push onto the rollback history  *)
(* and the POST.                                                           *)
(***************************************************************************)
\* What a step of a call leaves: the fields of the object, and the state of
\* the generator.
Outcome(self, state, g, gets, res) ==
    [self |-> self, pc |-> state, gen |-> g, fetched |-> gets, result |-> res]

\* The answers of the conversation endpoint to a POST: a stream, a status
\* that is not 2xx, or no connection.
Posts == {"ok", "HTTPError", "ConnectionError"}

\* A request that is sent a second time when the first POST fails.
RetriesOnce(self, data, auto, prefix, stream, gets, post) ==
    LET pushed == [self EXCEPT
                     !.conversation_id_prev_queue = Append(@, data.conversation_id),
                     !.parent_id_prev_queue = Append(@, data.parent_message_id),
                     !.pushers = [conversation_id |-> Append(@.conversation_id, self.requests + 1),
                                  parent_id |-> Append(@.parent_id, self.requests + 1)],
                     !.requests = @ + 1]
        g == [data |-> data, cid |-> data.conversation_id,
              pid |-> data.parent_message_id, model |-> None, message |-> "",
              finish_details |-> None, auto_continue |-> auto, prefix |-> prefix,
              stream |-> stream, lines |-> 0, open |-> IF post = "ok" THEN 1 ELSE 0]
    IN  IF post = "ok"
        THEN Outcome(pushed, "streaming", g, gets, "running")
        ELSE Outcome([pushed EXCEPT !.requests = @ + 1], "idle", g, gets, post)

\* A request that is recorded in the history only once the server has
\* accepted it.
PushAfterPost(self, data, auto, prefix, stream, gets, post) ==
    LET pushed == [self EXCEPT
                     !.conversation_id_prev_queue = Append(@, data.conversation_id),
                     !.parent_id_prev_queue = Append(@, data.parent_message_id),
                     !.pushers = [conversation_id |-> Append(@.conversation_id, self.requests + 1),
                                  parent_id |-> Append(@.parent_id, self.requests + 1)],
                     !.requests = @ + 1]
        g == [data |-> data, cid |-> data.conversation_id,
              pid |-> data.parent_message_id, model |-> None, message |-> "",
              finish_details |-> None, auto_continue |-> auto, prefix |-> prefix,
              stream |-> stream, lines |-> 0, open |-> IF post = "ok" THEN 1 ELSE 0]
    IN  IF post = "ok"
        THEN Outcome(pushed, "streaming", g, gets, "running")
        ELSE Outcome([self EXCEPT !.requests = @ + 1], "idle", g, gets, post)

\* A request that records in the history the first request of a call only.
PushesFirstOnly(self, data, auto, prefix, stream, gets, post) ==
    LET pushed == IF stream > 0 THEN [self EXCEPT !.requests = @ + 1]
                  ELSE [self EXCEPT
                          !.conversation_id_prev_queue = Append(@, data.conversation_id),
                          !.parent_id_prev_queue = Append(@, data.parent_message_id),
                          !.pushers = [conversation_id |-> Append(@.conversation_id, self.requests + 1),
                                       parent_id |-> Append(@.parent_id, self.requests + 1)],
                          !.requests = @ + 1]
        g == [data |-> data, cid |-> data.conversation_id,
              pid |-> data.parent_message_id, model |-> None, message |-> "",
              finish_details |-> None, auto_continue |-> auto, prefix |-> prefix,
              stream |-> stream, lines |-> 0, open |-> IF post = "ok" THEN 1 ELSE 0]
    IN  IF post = "ok"
        THEN Outcome(pushed, "streaming", g, gets, "running")
        ELSE Outcome(pushed, "idle", g, gets, post)

\* The first lines of __send_request: the ids of the payload are pushed, the
\* request is sent and its status is checked.
send_request(self, data, auto, prefix, stream, gets, post) ==
    LET pushed == [self EXCEPT
                     !.conversation_id_prev_queue = Append(@, data.conversation_id),
                     !.parent_id_prev_queue = Append(@, data.parent_message_id),
                     !.pushers = [conversation_id |-> Append(@.conversation_id, self.requests + 1),
                                  parent_id |-> Append(@.parent_id, self.requests + 1)],
                     !.requests = @ + 1]
        g == [data |-> data, cid |-> data.conversation_id,
              pid |-> data.parent_message_id, model |-> None, message |-> "",
              finish_details |-> None, auto_continue |-> auto, prefix |-> prefix,
              stream |-> stream, lines |-> 0, open |-> IF post = "ok" THEN 1 ELSE 0]
    IN  IF post = "ok"
        THEN Outcome(pushed, "streaming", g, gets, "running")
        ELSE Outcome(pushed, "idle", g, gets, post)

\* A call that gives the session its parent_id back when it raises.
RestoresParent(cls, lazy, cfg, self, action, messages, cidArg, pidArg, modelArg, auto, prefix, stream, server, post) ==
    LET r == IF cls = "Chatbot"
             THEN ChatbotResolve(self, lazy, cidArg, pidArg, server)
             ELSE AsyncResolve(self, cidArg, pidArg, server)
        written == [self EXCEPT !.parent_id = r.self_parent_id,
                                !.conversation_mapping = r.conversation_mapping,
                                !.uuids = r.uuids]
        data == [action |-> action, messages |-> messages,
                 conversation_id |-> r.conversation_id,
                 parent_message_id |-> r.parent_id,
                 model |-> PayloadModel(modelArg, cfg)]
        o == IF r.error # "none"
             THEN Outcome(written, "idle", NoGen, r.fetched, r.error)
             ELSE send_request(written, data, auto, prefix, stream, r.fetched, post)
    IN  IF o.result = "running" THEN o ELSE [o EXCEPT !.self.parent_id = self.parent_id]

\* post_messages (action "next") and continue_write (action "continue") of
\* the class cls, from their first line to the first line read.
Request(cls, lazy, cfg, self, action, messages, cidArg, pidArg, modelArg, auto, prefix, stream, server, post) ==
    LET r == IF cls = "Chatbot"
             THEN ChatbotResolve(self, lazy, cidArg, pidArg, server)
             ELSE AsyncResolve(self, cidArg, pidArg, server)
        written == [self EXCEPT !.parent_id = r.self_parent_id,
                                !.conversation_mapping = r.conversation_mapping,
                                !.uuids = r.uuids]
        data == [action |-> action, messages |-> messages,
                 conversation_id |-> r.conversation_id,
                 parent_message_id |-> r.parent_id,
                 model |-> PayloadModel(modelArg, cfg)]
    IN  IF r.error # "none"
        THEN Outcome(written, "idle", NoGen, r.fetched, r.error)
        ELSE send_request(written, data, auto, prefix, stream, r.fetched, post)

(***************************************************************************)
(* The end of a stream: the ids are committed and, when the response was   *)
(* cut at max_tokens and auto_continue is set, continue_write is called.   *)
(***************************************************************************)
\* A commit that leaves self.parent_id alone.
CommitWithoutParent(self, g) ==
    [self EXCEPT !.conversation_mapping = SetItem(@, g.cid, g.pid),
                 !.conversation_id = IF g.cid # None THEN g.cid ELSE @]

\* self.conversation_mapping[cid] = pid, then the two guarded assignments.
ChatbotCommit(self, g) ==
    [self EXCEPT !.conversation_mapping = SetItem(@, g.cid, g.pid),
                 !.parent_id = IF g.pid # None THEN g.pid ELSE @,
                 !.conversation_id = IF g.cid # None THEN g.cid ELSE @]

AsyncCommit(self, g) ==
    [self EXCEPT !.conversation_mapping = SetItem(@, g.cid, g.pid),
                 !.parent_id = IF Truthy(g.pid) THEN g.pid ELSE @,
                 !.conversation_id = IF Truthy(g.cid) THEN g.cid ELSE @]

\* A test that any finish reason passes.
ContinuesWhenFinished(g) == g.auto_continue /\ g.finish_details # None

\* if not (auto_continue and finish_details == "max_tokens"): return
Continues(g) == g.auto_continue /\ g.finish_details = "max_tokens"

\* A continuation sent as a new turn.
ContinuesAsNext(lazy, cfg, self, g, gets, server, post) ==
    LET o == Request("Chatbot", lazy, cfg, self, "next", "messages", g.cid, "",
                     g.model, FALSE, g.prefix \o StripNewlines(g.message),
                     g.stream + 1, server, post)
    IN  [o EXCEPT !.fetched = @ + gets, !.gen.open = @ + g.open]

\* The continue_write call of Chatbot.__send_request.
ChatbotContinue(lazy, cfg, self, g, gets, server, post) ==
    LET o == Request("Chatbot", lazy, cfg, self, "continue", Absent, g.cid, "",
                     g.model, FALSE, g.prefix \o StripNewlines(g.message),
                     g.stream + 1, server, post)
    IN  [o EXCEPT !.fetched = @ + gets, !.gen.open = @ + g.open]

\* The continue_write call of AsyncChatbot.__send_request.
AsyncContinue(lazy, cfg, self, g, gets, server, post) ==
    LET o == Request("AsyncChatbot", lazy, cfg, self, "continue", Absent, g.cid, "",
                     "", g.auto_continue, g.prefix \o g.message,
                     g.stream + 1, server, post)
    IN  [o EXCEPT !.fetched = @ + gets, !.gen.open = @ + g.open]

\* The response when the loop over its lines is left.  A response read to
\* its end, or whose connection broke, gives its connection back; one left
\* by break, by an exception or at a yield that is never resumed is closed
\* by the async with of AsyncChatbot and by nothing in Chatbot.
Leaves(cls, g, exhausted) ==
    IF exhausted \/ cls = "AsyncChatbot" THEN [g EXCEPT !.open = @ - 1] ELSE g

\* The code after the loop over the lines.
AfterLoop(cls, lazy, cfg, self, g, gets, server, post) ==
    LET committed == IF cls = "Chatbot" THEN ChatbotCommit(self, g)
                     ELSE AsyncCommit(self, g)
    IN  IF ~Continues(g) THEN Outcome(committed, "idle", g, gets, "ok")
        ELSE IF cls = "Chatbot"
             THEN ChatbotContinue(lazy, cfg, committed, g, gets, server, post)
             ELSE AsyncContinue(lazy, cfg, committed, g, gets, server, post)

\* A loop body that writes the ids of each update into the session.
CommitsPerDelta(cls, lazy, cfg, self, g, gets, raw, server, post) ==
    LET step == IF cls = "Chatbot" THEN ChatbotDecoded[raw] ELSE AsyncDecoded[raw]
        read == [g EXCEPT !.lines = @ + 1]
    IN  CASE step.kind = "done" ->
                AfterLoop(cls, lazy, cfg, self, Leaves(cls, read, FALSE), gets, server, post)
          [] step.kind = "skip" -> Outcome(self, "streaming", read, gets, "running")
          [] step.kind = "delta" ->
                Outcome([self EXCEPT !.conversation_id = step.delta.conversation_id,
                                     !.parent_id = step.delta.parent_id],
                        "streaming",
                        [read EXCEPT !.message = step.delta.message,
                                     !.cid = step.delta.conversation_id,
                                     !.pid = step.delta.parent_id,
                                     !.model = step.delta.model,
                                     !.finish_details = step.delta.finish_details],
                        gets, "running")
          [] OTHER -> Outcome(self, "idle", Leaves(cls, read, FALSE), gets, step.kind)

\* One line of the stream: what the loop body does with it.
OnLine(cls, lazy, cfg, self, g, gets, raw, server, post) ==
    LET step == IF cls = "Chatbot" THEN ChatbotDecoded[raw] ELSE AsyncDecoded[raw]
        read == [g EXCEPT !.lines = @ + 1]
    IN  CASE step.kind = "done" ->
                AfterLoop(cls, lazy, cfg, self, Leaves(cls, read, FALSE), gets, server, post)
          [] step.kind = "skip" -> Outcome(self, "streaming", read, gets, "running")
          [] step.kind = "delta" ->
                Outcome(self, "streaming",
                        [read EXCEPT !.message = step.delta.message,
                                     !.cid = step.delta.conversation_id,
                                     !.pid = step.delta.parent_id,
                                     !.model = step.delta.model,
                                     !.finish_details = step.delta.finish_details],
                        gets, "running")
          [] OTHER -> Outcome(self, "idle", Leaves(cls, read, FALSE), gets, step.kind)

\* The dict the caller receives for a delta: every enclosing __send_request
\* has put its own message in front of the text.
Received(g, delta) ==
    [stream |-> g.stream, line |-> g.lines + 1,
     delta |-> [delta EXCEPT !.message = g.prefix \o @]]

(***************************************************************************)
(* The operations of the object.  A call runs from "idle" through          *)
(* "streaming" to "ended", where the caller holds its outcome; the caller  *)
(* then goes on ("idle"), keeping the outcome and the ids of the last      *)
(* delta it received.                                                      *)
(***************************************************************************)
\* The object and the generator after a step of a call.
Apply(o) ==
    /\ conversation_id' = o.self.conversation_id
    /\ parent_id' = o.self.parent_id
    /\ conversation_mapping' = o.self.conversation_mapping
    /\ conversation_id_prev_queue' = o.self.conversation_id_prev_queue
    /\ parent_id_prev_queue' = o.self.parent_id_prev_queue
    /\ uuids' = o.self.uuids
    /\ requests' = o.self.requests
    /\ pushers' = o.self.pushers
    /\ pc' = o.pc
    /\ gen' = o.gen
    /\ fetched' = o.fetched
    /\ result' = o.result

\* Whether resolution of these arguments reaches the history endpoints.
Looks(cidArg, pidArg) ==
    /\ ~UsageError(cidArg, pidArg)
    /\ Truthy(Or(cidArg, conversation_id))
    /\ ~Truthy(Or(pidArg, SwitchParent(Self, cidArg)))
    /\ Or(cidArg, conversation_id) \notin DOMAIN conversation_mapping

\* A call of post_messages, ask or continue_write, run to the first line of
\* the response or to the error that ends it.
Call(op, action, messages, cids, pids, models, autos) ==
    /\ pc = "idle"
    /\ requests < MaxRequests
    /\ \E cidArg \in cids, pidArg \in pids, modelArg \in models, auto \in autos :
       \E server \in (IF Looks(cidArg, pidArg) THEN Servers ELSE {"up"}),
          post \in (IF Truthy(pidArg) /\ ~Truthy(cidArg) THEN {"ok"} ELSE Posts) :
       \E o \in {Request(client, lazy_loading, config, Self, action, messages,
                         cidArg, pidArg, modelArg, auto, "", 0, server, post)} :
          /\ o.self.uuids <= MaxUuid
          /\ Apply([o EXCEPT !.pc = IF @ = "idle" THEN "ended" ELSE @])
          /\ call' = [op |-> op, conversation_id |-> cidArg, parent_id |-> pidArg,
                      model |-> modelArg, auto_continue |-> auto, num |-> 0]
    /\ pre' = Self
    /\ yielded' = <<>>
    /\ wire' = <<>>
    /\ last' = NoLine
    /\ UNCHANGED <<object, others, prev>>

PostMessages(cids, pids, models, autos) ==
    Call("post_messages", "next", "messages", cids, pids, models, autos)

Ask(cids, pids, models, autos) ==
    Call("ask", "next", "prompt", cids, pids, models, autos)

ContinueWrite(cids, pids, models, autos) ==
    Call("continue_write", "continue", Absent, cids, pids, models, autos)

\* The decoder of the object's class on one raw line.
Decoded(raw) == IF client = "Chatbot" THEN ChatbotDecoded[raw] ELSE AsyncDecoded[raw]

\* The running generator is resumed and reads the next line of the stream.
ReadLine(lines) ==
    /\ pc = "streaming"
    /\ gen.lines < MaxLines
    /\ \E raw \in lines :
       \E server \in (IF Decoded(raw).kind = "done" /\ Continues(gen) /\ Looks(gen.cid, "")
                      THEN Servers ELSE {"up"}),
          post \in (IF Decoded(raw).kind = "done" /\ Continues(gen) THEN Posts ELSE {"ok"}) :
       \E o \in {OnLine(client, lazy_loading, config, Self, gen, fetched, raw, server, post)} :
          /\ o.self.uuids <= MaxUuid
          /\ o.self.requests <= MaxRequests
          /\ Apply([o EXCEPT !.pc = IF @ = "idle" THEN "ended" ELSE @])
          /\ yielded' = IF Decoded(raw).kind = "delta"
                        THEN Append(yielded, Received(gen, Decoded(raw).delta))
                        ELSE yielded
          /\ wire' = Append(wire, [stream |-> gen.stream, line |-> gen.lines + 1,
                                   raw |-> raw, kind |-> Decoded(raw).kind])
          /\ last' = [raw |-> raw, kind |-> Decoded(raw).kind]
    /\ UNCHANGED <<object, others, call, pre, prev>>

\* The server closes the stream without a [DONE] line: the loop ends.
StreamClosed ==
    /\ pc = "streaming"
    /\ \E server \in (IF Continues(gen) /\ Looks(gen.cid, "") THEN Servers ELSE {"up"}),
          post \in (IF Continues(gen) THEN Posts ELSE {"ok"}) :
       \E o \in {AfterLoop(client, lazy_loading, config, Self, Leaves(client, gen, TRUE),
                            fetched, server, post)} :
          /\ o.self.uuids <= MaxUuid
          /\ o.self.requests <= MaxRequests
          /\ Apply([o EXCEPT !.pc = IF @ = "idle" THEN "ended" ELSE @])
    /\ last' = [raw |-> "", kind |-> "closed"]
    /\ UNCHANGED <<object, others, call, pre, yielded, wire, prev>>

\* The connection breaks while a line is awaited: the iterator raises.
StreamBroken ==
    /\ pc = "streaming"
    /\ pc' = "ended"
    /\ result' = "ConnectionError"
    /\ gen' = Leaves(client, gen, TRUE)
    /\ last' = [raw |-> "", kind |-> "broken"]
    /\ UNCHANGED <<object, others, session, uuids, requests, call, pre, yielded, wire,
                   fetched, prev>>

\* The caller stops consuming: the generator, suspended at its yield, is
\* dropped.
Abandon ==
    /\ pc = "streaming"
    /\ last.kind = "delta"
    /\ pc' = "ended"
    /\ result' = "abandoned"
    /\ gen' = Leaves(client, gen, FALSE)
    /\ UNCHANGED <<object, others, session, uuids, requests, call, pre, yielded, wire,
                   last, fetched, prev>>

\* Nothing of a call is held.
Forget ==
    /\ call' = NoCall
    /\ pre' = NoSnapshot
    /\ gen' = NoGen
    /\ yielded' = <<>>
    /\ wire' = <<>>
    /\ last' = NoLine
    /\ fetched' = 0
    /\ result' = "none"

\* A method that is no generator has run: what it was, the fields of the
\* object when it began, and how it ended.
Done(what, res) ==
    /\ call' = what
    /\ pre' = Self
    /\ gen' = NoGen
    /\ yielded' = <<>>
    /\ wire' = <<>>
    /\ last' = NoLine
    /\ fetched' = 0
    /\ result' = res

\* What the caller keeps of a call it consumed to the end: the ids of the
\* last delta it received, None when it received none.  Of any other call
\* and of the other operations it keeps nothing.
Kept(res, deltas) ==
    IF res = "ok"
    THEN [result |-> "ok",
          conversation_id |-> IF deltas = <<>> THEN None
                              ELSE deltas[Len(deltas)].delta.conversation_id,
          parent_id |-> IF deltas = <<>> THEN None
                        ELSE deltas[Len(deltas)].delta.parent_id]
    ELSE [result |-> "other", conversation_id |-> None, parent_id |-> None]

\* The caller goes on after the call has ended.
Return ==
    /\ pc = "ended"
    /\ pc' = "idle"
    /\ prev' = Kept(result, yielded)
    /\ Forget
    /\ UNCHANGED <<object, others, session, uuids, requests>>

ResetChat ==
    /\ pc = "idle"
    /\ uuids < MaxUuid
    /\ conversation_id' = None
    /\ parent_id' = uuid4(uuids)
    /\ uuids' = uuids + 1
    /\ prev' = Kept("reset", <<>>)
    /\ Done([NoCall EXCEPT !.op = "reset_chat"], "ok")
    /\ UNCHANGED <<object, others, conversation_mapping, conversation_id_prev_queue,
                   parent_id_prev_queue, pushers, requests, pc>>

\* A rollback that stops at the oldest pair instead of failing.
Clamps(self, num) ==
    LET cq == self.conversation_id_prev_queue
        pq == self.parent_id_prev_queue
        n == IF num <= Len(cq) THEN num ELSE Len(cq)
    IN  IF n <= 0 THEN [self |-> self, error |-> "none"]
        ELSE [self |-> [self EXCEPT !.conversation_id = cq[Len(cq) - n + 1],
                                    !.conversation_id_prev_queue = SubSeq(cq, 1, Len(cq) - n),
                                    !.parent_id = pq[Len(pq) - n + 1],
                                    !.parent_id_prev_queue = SubSeq(pq, 1, Len(pq) - n)],
              error |-> "none"]

\* A rollback that pops one pair whatever num is.
PopsOnce(self, num) ==
    IF num <= 0 THEN [self |-> self, error |-> "none"]
    ELSE IF self.conversation_id_prev_queue = <<>> \/ self.parent_id_prev_queue = <<>>
    THEN [self |-> self, error |-> "IndexError"]
    ELSE LET cq == self.conversation_id_prev_queue
             pq == self.parent_id_prev_queue
         IN  [self |-> [self EXCEPT !.conversation_id = cq[Len(cq)],
                                    !.conversation_id_prev_queue = SubSeq(cq, 1, Len(cq) - 1),
                                    !.parent_id = pq[Len(pq)],
                                    !.parent_id_prev_queue = SubSeq(pq, 1, Len(pq) - 1)],
              error |-> "none"]

\* A rollback that looks at the length of the history before it pops.
ChecksFirst(self, num) ==
    IF num > Len(self.conversation_id_prev_queue) THEN [self |-> self, error |-> "IndexError"]
    ELSE Clamps(self, num)

\* A rollback that restores the conversation id alone, once.
PopsConversationOnly(self, num) ==
    IF num <= 0 THEN [self |-> self, error |-> "none"]
    ELSE IF self.conversation_id_prev_queue = <<>> THEN [self |-> self, error |-> "IndexError"]
    ELSE LET cq == self.conversation_id_prev_queue
         IN  [self |-> [self EXCEPT !.conversation_id = cq[Len(cq)],
                                    !.conversation_id_prev_queue = SubSeq(cq, 1, Len(cq) - 1),
                                    !.pushers.conversation_id = SubSeq(@, 1, Len(@) - 1)],
              error |-> "none"]

\* for _ in range(num): the two pops, until a pop from an empty list raises.
RECURSIVE rollback(_, _)
rollback(self, num) ==
    IF num <= 0 THEN [self |-> self, error |-> "none"]
    ELSE IF self.conversation_id_prev_queue = <<>> THEN [self |-> self, error |-> "IndexError"]
    ELSE LET cq == self.conversation_id_prev_queue
             popped == [self EXCEPT !.conversation_id = cq[Len(cq)],
                                    !.conversation_id_prev_queue = SubSeq(cq, 1, Len(cq) - 1),
                                    !.pushers.conversation_id = SubSeq(@, 1, Len(@) - 1)]
             pq == self.parent_id_prev_queue
         IN  IF pq = <<>> THEN [self |-> popped, error |-> "IndexError"]
             ELSE rollback([popped EXCEPT !.parent_id = pq[Len(pq)],
                                          !.parent_id_prev_queue = SubSeq(pq, 1, Len(pq) - 1),
                                          !.pushers.parent_id = SubSeq(@, 1, Len(@) - 1)],
                           num - 1)

RollbackConversation(nums) ==
    /\ pc = "idle"
    /\ \E num \in nums :
       \E r \in {rollback(Self, num)} :
          /\ conversation_id' = r.self.conversation_id
          /\ parent_id' = r.self.parent_id
          /\ conversation_id_prev_queue' = r.self.conversation_id_prev_queue
          /\ parent_id_prev_queue' = r.self.parent_id_prev_queue
          /\ pushers' = r.self.pushers
          /\ prev' = Kept(IF r.error = "none" THEN "rollback" ELSE r.error, <<>>)
          /\ Done([NoCall EXCEPT !.op = "rollback_conversation", !.num = num],
                  IF r.error = "none" THEN "ok" ELSE r.error)
    /\ UNCHANGED <<object, others, conversation_mapping, uuids, requests, pc>>

(***************************************************************************)
(* Specifications.                                                         *)
(***************************************************************************)
\* No object of the other classes has been made.
NoBots == <<>>

NoLegacy == <<>>

NoConversations == <<>>

\* Chatbot(config, conversation_id, parent_id, lazy_loading=...) and
\* AsyncChatbot(config, conversation_id, parent_id): the fields of the
\* object, and no call yet.
Fields(classes, ctors, configs) ==
    /\ \E c \in classes : client = c[1] /\ lazy_loading = c[2]
    /\ config \in configs
    /\ \E ids \in ctors : conversation_id = ids[1] /\ parent_id = ids[2]
    /\ conversation_mapping = EmptyDict
    /\ conversation_id_prev_queue = <<>>
    /\ parent_id_prev_queue = <<>>
    /\ uuids = 0
    /\ requests = 0
    /\ pushers = NoPushers
    /\ pc = "idle"
    /\ call = NoCall
    /\ pre = NoSnapshot
    /\ gen = NoGen
    /\ yielded = <<>>
    /\ wire = <<>>
    /\ last = NoLine
    /\ fetched = 0
    /\ result = "none"
    /\ prev = Kept("other", <<>>)

\* One object of the classes, and none of the others.
Constructed(classes, ctors, configs) ==
    /\ Fields(classes, ctors, configs)
    /\ bots = NoBots
    /\ legacy = NoLegacy
    /\ conversations = NoConversations

FreeConfig == [model |-> None, paid |-> FALSE]

\* Sessions: calls with and without ids, resets and rollbacks, over streams
\* of well-formed lines.
Init == Constructed({<<"Chatbot", TRUE>>, <<"Chatbot", FALSE>>},
                    {<<None, None>>}, {FreeConfig})

CallCids == {None, "c1", "c2"}
CallPids == {None, "q1"}

Next ==
    \/ PostMessages(CallCids, CallPids, {None}, {FALSE})
    \/ PostMessages({None}, {None}, {None}, {TRUE})
    \/ Ask({None}, CallPids, {None}, {FALSE})
    \/ ContinueWrite({None, "c2"}, CallPids, {None}, {FALSE})
    \/ ReadLine(SessionLines)
    \/ StreamClosed
    \/ StreamBroken
    \/ Abandon
    \/ Return
    \/ ResetChat
    \/ RollbackConversation({1, 2})

Spec == Init /\ [][Next]_vars

\* Decoding: one object of either class and one call without ids, over
\* streams of every line of DecoderLines.
InitDecode == Constructed({<<"Chatbot", TRUE>>, <<"AsyncChatbot", TRUE>>},
                          {<<None, None>>}, {FreeConfig})

NextDecode ==
    \/ PostMessages({None}, {None}, {None}, {FALSE})
    \/ ReadLine(DecoderLines)
    \/ StreamClosed
    \/ StreamBroken
    \/ Abandon

SpecDecode == InitDecode /\ [][NextDecode]_vars

\* Lines of a response that may be cut: updates that finish with nothing,
\* with "stop" and with "max_tokens", the echo of the user's message and the
\* end marker.
ContinueLines ==
    {DoneLine, Data(Hi("c1", "p1")), Data(Stop("c1", "p2")), Data(Cut("c2", "p1")),
     Data(UserEcho)}

\* Continuation: one object of either class and one call, with and without
\* auto_continue, over streams of ContinueLines.
InitContinue == Constructed({<<"Chatbot", TRUE>>, <<"AsyncChatbot", TRUE>>},
                            {<<None, None>>}, {FreeConfig})

NextContinue ==
    \/ PostMessages({None, "c2"}, {None}, {None, "gpt-4"}, BOOLEAN)
    \/ Ask({None}, {None}, {None}, BOOLEAN)
    \/ ContinueWrite({"c1", "c2"}, {None, "q1"}, {None}, BOOLEAN)
    \/ ReadLine(ContinueLines)
    \/ StreamClosed
    \/ StreamBroken
    \/ Abandon

SpecContinue == InitContinue /\ [][NextContinue]_vars

\* The choice of the model: every combination of a model argument that is
\* absent, empty or given, a configured model that is absent, empty or
\* given and a plan that is paid or free, for post_messages and
\* continue_write of both classes.
Configs == {[model |-> m, paid |-> p] : m \in {None, "", "gpt-3.5"}, p \in BOOLEAN}

ModelArgs == {None, "", "gpt-4"}

InitModel == Constructed({<<"Chatbot", TRUE>>, <<"AsyncChatbot", TRUE>>}, {<<None, None>>}, Configs)

NextModel ==
    \/ PostMessages({None}, {None}, ModelArgs, {FALSE})
    \/ ContinueWrite({"c1"}, {"q1"}, ModelArgs, {FALSE})
    \/ ReadLine({DoneLine, Data(Hi("c1", "p1"))})
    \/ StreamClosed
    \/ StreamBroken
    \/ Abandon

SpecModel == InitModel /\ [][NextModel]_vars

\* Calls that fail: at the POST, on the server's error text or on an event
\* without content, before or after a response cut at max_tokens.
FailLines ==
    {DoneLine, Data(Cut("c2", "p1")), "internal server error",
     Data(OtherEvent("no_content", "c1"))}

InitFail == Constructed({<<"Chatbot", TRUE>>, <<"AsyncChatbot", TRUE>>}, {<<None, None>>}, {FreeConfig})

NextFail ==
    \/ PostMessages({None}, {None}, {None}, BOOLEAN)
    \/ ReadLine(FailLines)
    \/ StreamClosed
    \/ StreamBroken
    \/ Abandon

SpecFail == InitFail /\ [][NextFail]_vars

(***************************************************************************)
(* Several objects.  Two Chatbot objects made from the same config, each   *)
(* with the generators of the calls made on it.  A Python object holds     *)
(* references: the dict and the two lists of an object live in a heap, and *)
(* a method of an object writes the containers its fields refer to.        *)
(***************************************************************************)
\* The objects.
Instances == {1, 2}
Other(i) == 3 - i

\* The fields of an object that refer to a container.
Containers == {"conversation_mapping", "conversation_id_prev_queue", "parent_id_prev_queue"}

\* Containers held by the class, one for all of its objects.
SharedObject(i, k) == <<0, k>>

\* self.conversation_mapping = {}, self.conversation_id_prev_queue = [],
\* self.parent_id_prev_queue = []: each evaluation in __init__ makes a
\* container of the object's own.
NewObject(i, k) == <<i, k>>

\* The ids the objects are made with: Chatbot(config, "c1", "n1") and
\* Chatbot(config).
BotCtors == <<<<"c1", "n1">>, <<None, None>>>>

\* The state after the two constructors have run.
MadeBots(ctors) ==
    [heap  |-> [r \in {NewObject(i, k) : i \in Instances, k \in Containers} |->
                   IF r[2] = "conversation_mapping" THEN EmptyDict ELSE <<>>],
     obj   |-> [i \in Instances |->
                   [conversation_id |-> ctors[i][1], parent_id |-> ctors[i][2],
                    conversation_mapping |-> NewObject(i, "conversation_mapping"),
                    conversation_id_prev_queue |-> NewObject(i, "conversation_id_prev_queue"),
                    parent_id_prev_queue |-> NewObject(i, "parent_id_prev_queue"),
                    requests |-> 0, pushers |-> NoPushers, ended |-> 0]],
     calls |-> [i \in Instances |-> <<>>],
     uuids |-> 0,
     who   |-> 0,
     seen  |-> <<>>]

\* The fields of object i as a method reads them: through the references.
Deref(b, i) ==
    LET o == b.obj[i]
    IN  [conversation_id |-> o.conversation_id, parent_id |-> o.parent_id,
         conversation_mapping |-> b.heap[o.conversation_mapping],
         conversation_id_prev_queue |-> b.heap[o.conversation_id_prev_queue],
         parent_id_prev_queue |-> b.heap[o.parent_id_prev_queue],
         uuids |-> b.uuids, requests |-> o.requests, pushers |-> o.pushers]

\* What a method of object i has written: the two ids in the object, the
\* dict and the lists in the containers the object refers to.
Store(b, i, self) ==
    LET o == b.obj[i]
    IN  [b EXCEPT
           !.obj[i].conversation_id = self.conversation_id,
           !.obj[i].parent_id = self.parent_id,
           !.obj[i].requests = self.requests,
           !.obj[i].pushers = self.pushers,
           !.uuids = self.uuids,
           !.heap = [r \in DOMAIN @ |->
                        IF r = o.parent_id_prev_queue THEN self.parent_id_prev_queue
                        ELSE IF r = o.conversation_id_prev_queue THEN self.conversation_id_prev_queue
                        ELSE IF r = o.conversation_mapping THEN self.conversation_mapping
                        ELSE @[r]]]

\* The session of object i: its ids, its mapping and its history.
View(b, i) ==
    LET self == Deref(b, i)
    IN  <<self.conversation_id, self.parent_id, self.conversation_mapping,
          self.conversation_id_prev_queue, self.parent_id_prev_queue>>

\* An operation on object i has run: what the other object's session was
\* before it is kept.
Touched(b, i, after) == [after EXCEPT !.who = i, !.seen = View(b, Other(i))]

\* The calls made on the objects so far.
BotCalls(b) == Len(b.calls[1]) + Len(b.calls[2])

\* Whether a call on object i is streaming.
Streaming(b, i) == \E n \in 1..Len(b.calls[i]) : b.calls[i][n].state = "streaming"

\* The ids a call on an object may supply.
BotCids == {None, "c2"}

\* Lines of the streams: two updates with different ids and the end marker.
BotLines == {DoneLine, Data(Hi("c1", "p1")), Data(Cut("c2", "p2"))}

\* The object of the session, which no operation on these objects touches.
alone == <<conversation_id, parent_id, conversation_mapping, conversation_id_prev_queue, parent_id_prev_queue, pushers, uuids, requests, pc, call, pre, gen, yielded, wire, last, fetched, result, prev>>

\* The generator of post_messages(messages, conversation_id=cidArg) on
\* object i is made and resumed for the first time; when the caller lets
\* calls overlap, generators of earlier calls on the object may be
\* suspended at a yield.
BotPost(i, overlapping) ==
    /\ BotCalls(bots) < MaxRequests
    /\ overlapping \/ ~Streaming(bots, i)
    /\ UNCHANGED <<object, alone, legacy, conversations>>
    /\ \E cidArg \in BotCids, server \in Servers, post \in Posts :
       \E o \in {Request("Chatbot", lazy_loading, config, Deref(bots, i), "next", "messages",
                         cidArg, None, None, FALSE, "", 0, server, post)} :
          /\ o.self.uuids <= MaxUuid
          /\ bots' = Touched(bots, i,
                 [Store(bots, i, o.self) EXCEPT
                    !.obj[i].ended = 0,
                    !.calls[i] = Append(@,
                        [state |-> IF o.pc = "streaming" THEN "streaming" ELSE "ended",
                         gen |-> o.gen, result |-> o.result,
                         conversation_id |-> cidArg,
                         found |-> <<bots.obj[i].conversation_id, bots.obj[i].parent_id>>,
                         history |-> Len(Deref(bots, i).parent_id_prev_queue),
                         during |-> {m \in 1..Len(bots.calls[i]) :
                                       bots.calls[i][m].state = "streaming"}])])

\* What a step of the generator of call n on object i leaves.
Resumed(b, i, n, o) ==
    [Store(b, i, o.self) EXCEPT
       !.calls[i][n].state = IF o.pc = "streaming" THEN "streaming" ELSE "ended",
       !.calls[i][n].gen = o.gen,
       !.calls[i][n].result = o.result,
       !.obj[i].ended = IF o.result = "ok" THEN n ELSE @]

\* The generator of call n on object i is resumed and reads a line.
BotRead(i) ==
    \E n \in 1..Len(bots.calls[i]), raw \in BotLines :
       /\ UNCHANGED <<object, alone, legacy, conversations>>
       /\ bots.calls[i][n].state = "streaming"
       /\ bots.calls[i][n].gen.lines < MaxLines
       /\ bots' = Touched(bots, i,
              Resumed(bots, i, n,
                      OnLine("Chatbot", lazy_loading, config, Deref(bots, i),
                             bots.calls[i][n].gen, 0, raw, "up", "ok")))

\* The stream of call n on object i is closed by the server.
BotClosed(i) ==
    \E n \in 1..Len(bots.calls[i]) :
       /\ UNCHANGED <<object, alone, legacy, conversations>>
       /\ bots.calls[i][n].state = "streaming"
       /\ bots' = Touched(bots, i,
              Resumed(bots, i, n,
                      AfterLoop("Chatbot", lazy_loading, config, Deref(bots, i),
                                Leaves("Chatbot", bots.calls[i][n].gen, TRUE), 0, "up", "ok")))

\* reset_chat on object i, between two calls on it.
BotReset(i) ==
    /\ bots.uuids < MaxUuid
    /\ ~Streaming(bots, i)
    /\ UNCHANGED <<object, alone, legacy, conversations>>
    /\ bots' = Touched(bots, i,
           [bots EXCEPT !.obj[i].conversation_id = None,
                        !.obj[i].parent_id = uuid4(bots.uuids),
                        !.obj[i].ended = 0,
                        !.uuids = @ + 1])

\* rollback_conversation(1) on object i, between two calls on it.
BotRollback(i) ==
    /\ UNCHANGED <<object, alone, legacy, conversations>>
    /\ ~Streaming(bots, i)
    /\ bots' = Touched(bots, i,
           [Store(bots, i, rollback(Deref(bots, i), 1).self) EXCEPT !.obj[i].ended = 0])

\* Two objects, the calls on each of them one after the other, the
\* operations on the two in any order.
InitBots ==
    /\ Fields({<<"Chatbot", TRUE>>, <<"Chatbot", FALSE>>}, {<<None, None>>}, {FreeConfig})
    /\ bots = MadeBots(BotCtors)
    /\ legacy = NoLegacy
    /\ conversations = NoConversations

NextBots ==
    \/ \E i \in Instances : BotPost(i, FALSE)
    \/ \E i \in Instances : BotRead(i)
    \/ \E i \in Instances : BotClosed(i)
    \/ \E i \in Instances : BotReset(i)
    \/ \E i \in Instances : BotRollback(i)

SpecBots == InitBots /\ [][NextBots]_vars

\* One object, with calls that start while earlier ones are streaming.
NextOverlap ==
    \/ BotPost(1, TRUE)
    \/ BotRead(1)
    \/ BotClosed(1)

SpecOverlap == InitBots /\ [][NextOverlap]_vars

(***************************************************************************)
(* The client of asyncChatGPT: one Chatbot object with a pair of ids and   *)
(* one saved pair.                                                         *)
(***************************************************************************)
\* conversation_id_prev and parent_id_prev are annotated in the class body
\* and assigned by no constructor: before the first request the object has
\* no such attribute.
Unset == "<unset>"

\* The ids the server answers with.
LegacyIds == {<<"c1", "p1">>, <<"c2", "p2">>}

\* The state of the object, and of the call in progress.
LegacyObject(cid, pid, cid_prev, pid_prev) ==
    [conversation_id |-> cid, parent_id |-> pid,
     conversation_id_prev |-> cid_prev, parent_id_prev |-> pid_prev]

\* Chatbot(config): conversation_id is None and parent_id a generated id.
MadeLegacy ==
    [self |-> LegacyObject(None, uuid4(0), Unset, Unset),
     uuids |-> 1, requests |-> 0, lines |-> 0, pc |-> "idle",
     op |-> "none", result |-> "none",
     snapshot |-> <<>>, older |-> <<>>, rolls |-> 0]

\* A rollback that gives back one saved pair after the other.
PopsSnapshot(l) ==
    IF l.self.conversation_id_prev = Unset THEN [l EXCEPT !.result = "AttributeError"]
    ELSE [l EXCEPT !.self.conversation_id = l.self.conversation_id_prev,
                   !.self.parent_id = l.self.parent_id_prev,
                   !.self.conversation_id_prev = IF l.older = <<>> THEN @ ELSE l.older[1],
                   !.self.parent_id_prev = IF l.older = <<>> THEN @ ELSE l.older[2],
                   !.result = "ok"]

\* self.conversation_id = self.conversation_id_prev
\* self.parent_id = self.parent_id_prev
legacy_rollback(l) ==
    IF l.self.conversation_id_prev = Unset THEN [l EXCEPT !.result = "AttributeError"]
    ELSE [l EXCEPT !.self.conversation_id = l.self.conversation_id_prev,
                   !.self.parent_id = l.self.parent_id_prev,
                   !.result = "ok"]

\* get_chat_response up to the choice of the output: the payload is built
\* from the ids of the object, which are then saved.
Saved(l, op) ==
    [l EXCEPT !.self.conversation_id_prev = l.self.conversation_id,
              !.self.parent_id_prev = l.self.parent_id,
              !.requests = @ + 1, !.lines = 0, !.op = op, !.rolls = 0,
              !.older = l.snapshot,
              !.snapshot = <<l.self.conversation_id, l.self.parent_id>>]

\* The objects of the other classes, which this one does not touch.
apart == <<client, lazy_loading, config, conversation_id, parent_id, conversation_mapping, conversation_id_prev_queue, parent_id_prev_queue, pushers, uuids, requests, pc, call, pre, gen, yielded, wire, last, fetched, result, prev, bots, conversations>>

\* get_chat_response(prompt, "text"): the ids of the last event of the
\* response are taken, or the request fails.
LegacyText ==
    /\ legacy.pc = "idle" /\ legacy.requests < MaxRequests
    /\ \/ \E ids \in LegacyIds :
             legacy' = [Saved(legacy, "text") EXCEPT !.self.parent_id = ids[2],
                                                     !.self.conversation_id = ids[1],
                                                     !.result = "ok"]
       \/ legacy' = [Saved(legacy, "text") EXCEPT !.result = "Exception"]
    /\ UNCHANGED apart

\* get_chat_response(prompt, "stream") returns the generator.
LegacyStream ==
    /\ legacy.pc = "idle" /\ legacy.requests < MaxRequests
    /\ legacy' = [Saved(legacy, "stream") EXCEPT !.pc = "streaming", !.result = "running"]
    /\ UNCHANGED apart

\* get_chat_response(prompt, output) with any other output.
LegacyOutput ==
    /\ legacy.pc = "idle" /\ legacy.requests < MaxRequests
    /\ legacy' = [Saved(legacy, "other") EXCEPT !.result = "ValueError"]
    /\ UNCHANGED apart

\* The generator reads an event: the ids of the object are set before the
\* event is yielded.
LegacyDelta ==
    /\ legacy.pc = "streaming" /\ legacy.lines < MaxLines
    /\ \E ids \in LegacyIds :
          legacy' = [legacy EXCEPT !.self.conversation_id = ids[1],
                                   !.self.parent_id = ids[2],
                                   !.lines = @ + 1, !.op = "stream", !.rolls = 0]
    /\ UNCHANGED apart

\* The stream ends, or a line of it cannot be handled.
LegacyEnd ==
    /\ legacy.pc = "streaming"
    /\ \E res \in {"ok", "Exception"} :
          legacy' = [legacy EXCEPT !.pc = "idle", !.result = res, !.op = "stream", !.rolls = 0]
    /\ UNCHANGED apart

LegacyReset ==
    /\ legacy.uuids < MaxUuid
    /\ legacy' = [legacy EXCEPT !.self.conversation_id = None,
                                !.self.parent_id = uuid4(legacy.uuids),
                                !.uuids = @ + 1, !.op = "reset_chat",
                                !.result = "ok", !.rolls = 0]
    /\ UNCHANGED apart

\* rollback_conversation(), between two events of a stream as well.
LegacyRollback ==
    /\ legacy.rolls < MaxRolls
    /\ legacy' = [legacy_rollback(legacy) EXCEPT !.op = "rollback_conversation",
                                                 !.rolls = @ + 1]
    /\ UNCHANGED apart

InitLegacy ==
    /\ Fields({<<"Chatbot", TRUE>>}, {<<None, None>>}, {FreeConfig})
    /\ bots = NoBots
    /\ legacy = MadeLegacy
    /\ conversations = NoConversations

NextLegacy ==
    \/ LegacyText
    \/ LegacyStream
    \/ LegacyOutput
    \/ LegacyDelta
    \/ LegacyEnd
    \/ LegacyReset
    \/ LegacyRollback

SpecLegacy == InitLegacy /\ [][NextLegacy]_vars

(***************************************************************************)
(* The conversations of V2: a dict from conversation id to the list of    *)
(* messages of the conversation.                                          *)
(***************************************************************************)
\* A setting of the environment larger than the window.
HugeBuffer == 4000 + 500

\* CONVERSATION_BUFFER: int = int(os.environ.get("CONVERSATION_BUFFER") or 1500)
CONVERSATION_BUFFER == 1500

\* The texts of the messages, and the number of tokens the encoder gives
\* for the line of a message with that text: a line that fits several
\* times, one that fits once with a short one, one that does not fit.
Texts == {"short", "long", "huge"}
LineTokens == [t \in Texts |-> CASE t = "short" -> 900 [] t = "long" -> 1700 [] t = "huge" -> 2600]

Message(text, author) == [text |-> text, author |-> author]

Messages == {Message("short", "User"), Message("long", "ChatGPT"), Message("huge", "User")}

\* The conversation ids in use; nothing is ever added to the last one.
ConversationIds == {"a", "b", "z"}

\* conversation += f"{message.author}: {message.text}<|im_sep|>\n\n"
RECURSIVE Rendering(_)
Rendering(messages) ==
    IF messages = <<>> THEN ""
    ELSE Rendering(SubSeq(messages, 1, Len(messages) - 1))
         \o messages[Len(messages)].author \o ": " \o messages[Len(messages)].text
         \o "<|im_sep|>\n\n"

\* len(ENCODER.encode(conversation)): no token for the empty string, and
\* the tokens of each line of the conversation.
RECURSIVE Encoded(_)
Encoded(messages) ==
    IF messages = <<>> THEN 0
    ELSE Encoded(SubSeq(messages, 1, Len(messages) - 1)) + LineTokens[messages[Len(messages)].text]

\* Python's list[start:] and list[:stop] for an int of either sign.
SliceFrom(list, start) ==
    LET first == IF start < 0 THEN (IF Len(list) + start < 0 THEN 0 ELSE Len(list) + start)
                 ELSE (IF start > Len(list) THEN Len(list) ELSE start)
    IN  SubSeq(list, first + 1, Len(list))

SliceTo(list, stop) ==
    LET last_ == IF stop < 0 THEN (IF Len(list) + stop < 0 THEN 0 ELSE Len(list) + stop)
                 ELSE (IF stop > Len(list) THEN Len(list) ELSE stop)
    IN  SubSeq(list, 1, last_)

\* Conversations(): no conversation, and no call yet.
MadeConversations ==
    [conversations |-> EmptyDict, pc |-> "idle", op |-> "none",
     conversation_id |-> "", num |-> 0, frames |-> 0, result |-> "",
     before |-> EmptyDict]

\* The messages the conversations hold.
Held(d) ==
    LET RECURSIVE Sum(_)
        Sum(ids) == IF ids = {} THEN 0
                    ELSE LET id == CHOOSE x \in ids : TRUE
                         IN  Len(d[id]) + Sum(ids \ {id})
    IN  Sum(DOMAIN d)

\* purge_history(conversation_id, num): messages = messages[num:]
purge_history(d, id, num) ==
    IF id \notin DOMAIN d THEN d
    ELSE [d EXCEPT ![id] = SliceFrom(@, num)]

\* A rollback that leaves the list alone when num is 0.
KeepsOnZero(d, id, num) ==
    IF id \notin DOMAIN d THEN d
    ELSE IF num = 0 THEN d
    ELSE [d EXCEPT ![id] = SliceTo(@, -num)]

\* rollback(conversation_id, num): messages = messages[:-num]
v2_rollback(d, id, num) ==
    IF id \notin DOMAIN d THEN d
    ELSE [d EXCEPT ![id] = SliceTo(@, -num)]

\* One invocation of get: what it returns, or the purge before it calls
\* itself.
get(d, id) ==
    IF id \notin DOMAIN d
    THEN [conversations |-> d, returns |-> TRUE, result |-> ""]
    ELSE IF Encoded(d[id]) > 4000 - CONVERSATION_BUFFER
    THEN [conversations |-> purge_history(d, id, 1), returns |-> FALSE, result |-> ""]
    ELSE [conversations |-> d, returns |-> TRUE, result |-> Rendering(d[id])]

\* The objects of the other classes, which this one does not touch.
aside == <<client, lazy_loading, config, conversation_id, parent_id, conversation_mapping, conversation_id_prev_queue, parent_id_prev_queue, pushers, uuids, requests, pc, call, pre, gen, yielded, wire, last, fetched, result, prev, bots, legacy>>

\* add_message(message, conversation_id)
AddMessage ==
    /\ conversations.pc = "idle"
    /\ Held(conversations.conversations) < MaxMessages
    /\ \E id \in ConversationIds \ {"z"}, message \in Messages :
          conversations' =
             [conversations EXCEPT
                !.before = conversations.conversations,
                !.conversations = IF id \in DOMAIN @ THEN [@ EXCEPT ![id] = Append(@, message)]
                                  ELSE SetItem(@, id, <<message>>),
                !.op = "add_message", !.conversation_id = id, !.num = 0, !.frames = 0,
                !.result = ""]
    /\ UNCHANGED aside

\* rollback(conversation_id, num) for an int num that is not negative.
Rollback ==
    /\ conversations.pc = "idle"
    /\ \E id \in ConversationIds, num \in 0..(MaxMessages + 1) :
          conversations' =
             [conversations EXCEPT
                !.before = conversations.conversations,
                !.conversations = v2_rollback(@, id, num),
                !.op = "rollback", !.conversation_id = id, !.num = num, !.frames = 0,
                !.result = ""]
    /\ UNCHANGED aside

\* What an invocation of get leaves.
Invoked(c, o) ==
    [c EXCEPT !.conversations = o.conversations,
              !.pc = IF o.returns THEN "idle" ELSE "get",
              !.result = o.result,
              !.frames = @ + 1]

\* get(conversation_id), called from outside.
Get ==
    /\ conversations.pc = "idle"
    /\ \E id \in ConversationIds :
          conversations' =
             Invoked([conversations EXCEPT !.before = conversations.conversations,
                                           !.op = "get", !.conversation_id = id,
                                           !.num = 0, !.frames = 0],
                     get(conversations.conversations, id))
    /\ UNCHANGED aside

\* return self.get(conversation_id): get, called by itself after a purge.
GetAgain ==
    /\ conversations.pc = "get"
    /\ conversations' = Invoked(conversations,
                                get(conversations.conversations, conversations.conversation_id))
    /\ UNCHANGED aside

InitConversations ==
    /\ Fields({<<"Chatbot", TRUE>>}, {<<None, None>>}, {FreeConfig})
    /\ bots = NoBots
    /\ legacy = NoLegacy
    /\ conversations = MadeConversations

NextConversations ==
    \/ AddMessage
    \/ Rollback
    \/ Get
    \/ GetAgain

SpecConversations == InitConversations /\ [][NextConversations]_vars

(***************************************************************************)
(* Properties.                                                             *)
(***************************************************************************)
\* The deltas that streams before the running one have handed to the caller.
EarlierDeltas == SelectSeq(yielded, LAMBDA y : y.stream < gen.stream)

\* The call that follows a call consumed to its end supplies no ids.
C1_NextCall ==
    (/\ pc # "idle" /\ gen.stream = 0
     /\ prev.result = "ok" /\ prev.conversation_id # None
     /\ ~Truthy(call.conversation_id) /\ ~Truthy(call.parent_id))
    => /\ gen.data.conversation_id = prev.conversation_id
       /\ gen.data.parent_message_id = prev.parent_id

\* The request of an automatic continuation.
C1_Continuation ==
    gen.stream > 0
    => /\ EarlierDeltas # <<>>
       /\ gen.data.conversation_id = EarlierDeltas[Len(EarlierDeltas)].delta.conversation_id
       /\ gen.data.parent_message_id = EarlierDeltas[Len(EarlierDeltas)].delta.parent_id

\* C1: after a call on a Chatbot whose stream was consumed to its end and
\* yielded a delta, the next call that supplies no conversation_id and no
\* parent_id, and the automatic continuation, send a payload whose
\* conversation_id and parent_message_id are the conversation_id and the
\* parent_id of the last delta yielded.
C1_Threading == client = "Chatbot" => C1_NextCall /\ C1_Continuation

\* A second call without ids has been sent after a call that was consumed to
\* its end and had yielded a delta.
C1_Witness ==
    /\ client = "Chatbot"
    /\ prev.result = "ok" /\ prev.conversation_id = "c2" /\ prev.parent_id = "p2"
    /\ call.op = "post_messages"
    /\ call.conversation_id = None /\ call.parent_id = None
    /\ requests = 2 /\ pc = "streaming"
    /\ gen.data.conversation_id = "c2" /\ gen.data.parent_message_id = "p2"

\* The entry of the wire that a delta handed to the caller was decoded from.
WireIndex(y) == CHOOSE k \in DOMAIN wire : wire[k].stream = y.stream /\ wire[k].line = y.line

\* A raw line that is the end marker, with or without the "data: " prefix.
IsDoneLine(raw) == raw \in {"[DONE]", "data: [DONE]"}

\* C2: the deltas that Chatbot.__send_request yields for a stream come in
\* the order of the lines they were decoded from, and no delta is yielded
\* for a line that arrives after a [DONE] line of the same stream.
C2_WireOrder ==
    client = "Chatbot" =>
        /\ \A i \in DOMAIN yielded :
              \E k \in DOMAIN wire :
                 /\ wire[k].stream = yielded[i].stream /\ wire[k].line = yielded[i].line
                 /\ wire[k].kind = "delta"
        /\ \A i, j \in DOMAIN yielded :
              i < j => WireIndex(yielded[i]) < WireIndex(yielded[j])
        /\ \A i \in DOMAIN yielded, k \in DOMAIN wire :
              (wire[k].stream = yielded[i].stream /\ IsDoneLine(wire[k].raw))
              => wire[k].line > yielded[i].line

\* A stream of a Chatbot has handed over a delta and then read [DONE].
C2_Witness ==
    /\ client = "Chatbot"
    /\ Len(wire) = 2 /\ wire[1].kind = "delta" /\ wire[2].raw = DoneLine
    /\ Len(yielded) = 1 /\ yielded[1].line = 1
    /\ pc = "ended" /\ result = "ok"

\* What reaches json.loads in the synchronous loop for a raw line, and what
\* json.loads makes of it.
ChatbotParsed ==
    [raw \in WireLines |->
        LET str  == PyStrBytes(raw)
            line == SubSeq(str, 3, Len(str) - 1)
        IN  IF Lower(line) = "internal server error" \/ line = ""
               \/ StripData(line) = "[DONE]"
            THEN [reaches |-> FALSE, value |-> JSONDecodeError]
            ELSE [reaches |-> TRUE, value |-> JsonLoads(Unescape(StripData(line)))]]

\* A JSON value without message.content.
LacksContent(ev) == ev.shape \in {"scalar", "no_message", "null_message", "no_content"}

\* The caller has been handed a delta for the line.
YieldedFor(w) ==
    \E i \in DOMAIN yielded : yielded[i].stream = w.stream /\ yielded[i].line = w.line

\* The line is the one read last, and nothing has happened since.
JustRead(k) == k = Len(wire) /\ last.kind = wire[k].kind

\* C3: in the loop of Chatbot.__send_request a line that json.loads rejects
\* is skipped (no delta, no error, the loop goes on and an assistant event
\* on a later line is still yielded), and a line that json.loads accepts but
\* that lacks message.content ends the call with an error and without a
\* delta for the line.
C3_Malformed ==
    client = "Chatbot" =>
        \A k \in DOMAIN wire :
            LET w == wire[k]
                p == ChatbotParsed[w.raw]
            IN  p.reaches =>
                  /\ p.value = JSONDecodeError =>
                        /\ w.kind = "skip" /\ ~YieldedFor(w)
                        /\ JustRead(k) => pc = "streaming" /\ result = "running"
                  /\ (p.value # JSONDecodeError /\ LacksContent(p.value)) =>
                        /\ w.kind = "ValueError" /\ ~YieldedFor(w)
                        /\ k = Len(wire) /\ pc = "ended" /\ result = "ValueError"
                  /\ (p.value # JSONDecodeError /\ ~LacksContent(p.value)
                      /\ p.value.role = "assistant") =>
                        w.kind = "delta" /\ YieldedFor(w)

\* A Chatbot has passed over a line that is not JSON and has handed over the
\* delta of the line after it.
C3_Witness ==
    /\ client = "Chatbot"
    /\ Len(wire) = 2
    /\ ChatbotParsed[wire[1].raw].reaches
    /\ ChatbotParsed[wire[1].raw].value = JSONDecodeError
    /\ Len(yielded) = 1 /\ yielded[1].line = 2
    /\ pc = "streaming"

\* C4: in the synchronous and in the asynchronous loop a line ends the
\* stream, without a delta and without an error, if and only if it is
\* exactly "[DONE]" once the "data: " prefix is stripped; a line that only
\* holds the text "[DONE]" inside other content is decoded like any other.
C4_ExactDone ==
    \A k \in DOMAIN wire : wire[k].kind = "done" <=> IsDoneLine(wire[k].raw)

\* The same, of the synchronous loop alone.
C4_ChatbotExactDone == client = "Chatbot" => C4_ExactDone

\* A call has been made and nothing has happened since.
JustCalled == pc # "idle" /\ wire = <<>> /\ last = NoLine /\ gen.stream = 0

\* C5: post_messages, ask or continue_write with a non-empty parent_id and
\* no conversation_id fails with a usage error and has no other effect: no
\* request is sent, nothing is pushed onto the rollback history, and the
\* session's conversation_id, parent_id and mapping are unchanged.
C5_UsageError ==
    (client = "Chatbot" /\ pc # "idle"
     /\ Truthy(call.parent_id) /\ ~Truthy(call.conversation_id))
    => /\ pc = "ended" /\ result = "UsageError"
       /\ Self = pre
       /\ gen = NoGen /\ fetched = 0

\* continue_write with a parent_id alone has failed on a session that had
\* completed a request.
C5_Witness ==
    /\ client = "Chatbot" /\ pc = "ended" /\ result = "UsageError"
    /\ call.op = "continue_write" /\ call.parent_id = "q1"
    /\ requests = 1 /\ parent_id = "p1" /\ conversation_id = "c1"
    /\ Len(parent_id_prev_queue) = 1

\* The call supplied a conversation_id other than the session's.
Switched == Truthy(call.conversation_id) /\ call.conversation_id # pre.conversation_id

\* C6: when a call supplies a conversation_id that differs from the
\* session's, the session's parent_id is discarded before resolution: the
\* payload's parent_message_id is the supplied parent_id, else the value the
\* mapping holds for the supplied conversation once it has been looked up,
\* else a fresh id, never the parent_id held for the conversation left.
C6_Switch ==
    (client = "Chatbot" /\ JustCalled /\ Switched)
    => /\ parent_id = None
       /\ gen # NoGen =>
             IF Truthy(call.parent_id)
             THEN /\ gen.data.parent_message_id = call.parent_id
                  /\ gen.data.conversation_id = call.conversation_id
             ELSE IF call.conversation_id \in DOMAIN conversation_mapping
             THEN /\ gen.data.parent_message_id = conversation_mapping[call.conversation_id]
                  /\ gen.data.conversation_id = call.conversation_id
             ELSE /\ gen.data.parent_message_id = uuid4(pre.uuids)
                  /\ gen.data.conversation_id = None

\* A session at (c1, p1) has been called with the unknown conversation c2
\* and no parent_id, and has sent a fresh id.
C6_Witness ==
    /\ client = "Chatbot" /\ JustCalled
    /\ pre.conversation_id = "c1" /\ pre.parent_id = "p1"
    /\ call.conversation_id = "c2" /\ call.parent_id = None
    /\ gen.data.parent_message_id = uuid4(pre.uuids)
    /\ parent_id = None

\* C7: on a session without conversation_id and without parent_id,
\* post_messages(conversation_id=None, parent_id=None) sends a payload with
\* conversation_id null and a freshly generated, non-empty parent_message_id,
\* and looks up no history.
C7_FreshSession ==
    (/\ client = "Chatbot" /\ JustCalled /\ call.op = "post_messages"
     /\ call.conversation_id = None /\ call.parent_id = None
     /\ pre.conversation_id = None /\ ~Truthy(pre.parent_id))
    => /\ requests = pre.requests + 1
       /\ gen.data.action = "next"
       /\ gen.data.conversation_id = None
       /\ gen.data.parent_message_id = uuid4(pre.uuids) /\ uuids = pre.uuids + 1
       /\ gen.data.parent_message_id \notin {None, ""}
       /\ \A i \in DOMAIN pre.parent_id_prev_queue :
             pre.parent_id_prev_queue[i] # gen.data.parent_message_id
       /\ fetched = 0

\* A session still without ids after a request that failed has posted again.
C7_Witness ==
    /\ client = "Chatbot" /\ JustCalled /\ call.op = "post_messages"
    /\ call.conversation_id = None /\ call.parent_id = None
    /\ pre.conversation_id = None /\ pre.parent_id = None
    /\ requests = 2 /\ pc = "streaming"
    /\ gen.data.parent_message_id = "uuid-1"

\* C8: when the effective conversation_id c is set, no parent_id is
\* available for it (none supplied, and the session's is empty or was
\* discarded because c is not the session's conversation) and the mapping
\* holds c -> p, the payload's parent_message_id is p and resolution makes
\* no history or listing request.
C8_Mapped ==
    LET c == Or(call.conversation_id, pre.conversation_id)
    IN  (/\ client = "Chatbot" /\ JustCalled
         /\ Truthy(c) /\ ~Truthy(call.parent_id)
         /\ (Switched \/ ~Truthy(pre.parent_id))
         /\ c \in DOMAIN pre.conversation_mapping)
        => /\ requests = pre.requests + 1
           /\ gen.data.conversation_id = c
           /\ gen.data.parent_message_id = pre.conversation_mapping[c]
           /\ fetched = 0

\* After a reset, a call names the conversation c1 that the mapping holds.
C8_Witness ==
    /\ client = "Chatbot" /\ JustCalled
    /\ call.conversation_id = "c1" /\ call.parent_id = None
    /\ pre.conversation_id = None
    /\ "c1" \in DOMAIN pre.conversation_mapping
    /\ pre.conversation_mapping["c1"] = "p1"
    /\ gen.data.parent_message_id = "p1" /\ fetched = 0

\* C9: every request that the Chatbot sends, from post_messages, from
\* continue_write or as an automatic continuation, after any calls, resets
\* and rollbacks, carries a parent_message_id that is set and not empty.
C9_ParentSet ==
    client = "Chatbot" =>
        /\ gen.data.action # "none" => Truthy(gen.data.parent_message_id)
        /\ \A i \in DOMAIN parent_id_prev_queue : Truthy(parent_id_prev_queue[i])

\* An automatic continuation has been sent.
C9_Witness ==
    /\ client = "Chatbot" /\ pc = "streaming"
    /\ gen.stream = 1 /\ gen.data.action = "continue"
    /\ gen.data.parent_message_id = "p2"
    /\ Len(parent_id_prev_queue) = 2

\* The delta handed to the caller last.
LastDelta == yielded[Len(yielded)].delta

\* C10: while a response stream is consumed, after each delta yielded the
\* session's conversation_id and parent_id are that delta's; so when the
\* stream then fails mid-way (a server-error line, an event with a missing
\* field, a broken connection) or the caller stops consuming, the session is
\* left at the ids of the last delta yielded.
C10_PerDelta ==
    (/\ client = "Chatbot" /\ pc # "idle" /\ yielded # <<>>
     /\ result \in {"running", "ServerError", "ValueError", "ConnectionError", "abandoned"})
    => /\ conversation_id = LastDelta.conversation_id
       /\ parent_id = LastDelta.parent_id

\* The finish_details of the last delta that the stream handed to the
\* caller, None when it handed over none.
LastFinish(k) ==
    LET of_k == SelectSeq(yielded, LAMBDA y : y.stream = k)
    IN  IF of_k = <<>> THEN None ELSE of_k[Len(of_k)].delta.finish_details

\* No line of the running stream has been read.
StreamUnread == \A i \in DOMAIN wire : wire[i].stream # gen.stream

\* C11: after the stream of a request has ended, a continuation request
\* (action "continue") is issued if and only if the auto_continue of the
\* __send_request that read the stream is true and the finish reason of the
\* last delta of the stream is exactly "max_tokens"; it is issued only once
\* the stream has ended, never mid-stream.
C11_Continuation ==
    client = "Chatbot" =>
        /\ (pc = "ended" /\ result = "ok")
           => ~(gen.auto_continue /\ LastFinish(gen.stream) = "max_tokens")
        /\ gen.stream > 0
           => /\ call.auto_continue
              /\ LastFinish(gen.stream - 1) = "max_tokens"
              /\ gen.data.action = "continue"
              /\ requests = gen.stream + 1
        /\ gen.stream = 0 => requests <= 1
        /\ (gen.stream > 0 /\ StreamUnread)
           => last.kind \in {"done", "closed", "broken"}

\* A Chatbot has sent a continuation after a stream that ended at max_tokens.
C11_Witness ==
    /\ client = "Chatbot" /\ call.auto_continue
    /\ gen.stream = 1 /\ gen.data.action = "continue"
    /\ Len(wire) = 2 /\ wire[2].raw = DoneLine
    /\ LastFinish(0) = "max_tokens" /\ pc = "streaming"

\* The message of the last delta that the stream handed to the caller.
LastMessage(k) ==
    LET of_k == SelectSeq(yielded, LAMBDA y : y.stream = k)
    IN  of_k[Len(of_k)].delta.message

\* The message of the delta as the line of the stream carried it.
OwnMessage(y) == Decoded(wire[WireIndex(y)].raw).delta.message

\* Every delta of a continuation is the truncated response, less its
\* trailing newlines, followed by the delta's own message.
Concatenated ==
    \A i \in DOMAIN yielded :
        yielded[i].stream > 0
        => yielded[i].delta.message
           = RStripNewlines(LastMessage(yielded[i].stream - 1)) \o OwnMessage(yielded[i])

\* C12: when auto-continue issues a continuation, every delta that the
\* caller receives from it has message = P + m, m the delta's own message
\* and P the last message of the truncated response with its trailing
\* newlines removed and nothing else changed, in Chatbot and AsyncChatbot.
C12_Concatenation == Concatenated

\* The same, of each class alone.
C12_ChatbotConcatenation == client = "Chatbot" => Concatenated
C12_AsyncConcatenation == client = "AsyncChatbot" => Concatenated

\* The history of a session: the pairs pushed and not popped, oldest first.
History(self) ==
    [i \in 1..Len(self.conversation_id_prev_queue) |->
        <<self.conversation_id_prev_queue[i], self.parent_id_prev_queue[i]>>]

\* rollback_conversation(n) has just returned without an error.
RolledBack == pc = "idle" /\ call.op = "rollback_conversation" /\ result = "ok"

\* C13: rollback is the exact inverse of a history push. A request pushes
\* the pair of ids of its payload on the history, and a rollback of 1 from
\* there would set the ids of the session to that pair and leave the history
\* as it was before the push; rollback_conversation(n) on a history of at
\* least n pairs removes the last n pairs, leaves the others as they were
\* and sets the ids of the session to the first of the n pairs removed.
C13_RollbackInverse ==
    /\ (JustCalled /\ gen.data.action # "none") =>
           /\ History(Self) = Append(History(pre), <<gen.data.conversation_id, gen.data.parent_message_id>>)
           /\ LET r == rollback(Self, 1).self
              IN  /\ <<r.conversation_id, r.parent_id>> = <<gen.data.conversation_id, gen.data.parent_message_id>>
                  /\ History(r) = History(pre)
    /\ RolledBack =>
           LET h == History(pre)
               n == call.num
           IN  /\ Len(h) >= n
               /\ History(Self) = SubSeq(h, 1, Len(h) - n)
               /\ <<conversation_id, parent_id>> = h[Len(h) - n + 1]
               /\ conversation_mapping = pre.conversation_mapping

\* rollback_conversation(2) has undone the two requests made before it.
C13_Witness ==
    /\ RolledBack /\ call.num = 2
    /\ Len(pre.conversation_id_prev_queue) = 2
    /\ conversation_id_prev_queue = <<>>
    /\ parent_id = pre.parent_id_prev_queue[1]
    /\ parent_id # pre.parent_id

\* C14: rollback_conversation(n) on a history of fewer than n pairs, the
\* empty history included, ends in an error (the IndexError of the pop from
\* an empty list); it never returns as if the oldest pair were the n-th.
C14_RollbackFails ==
    (pc = "idle" /\ call.op = "rollback_conversation" /\ Len(History(pre)) < call.num) =>
        result = "IndexError"

\* rollback_conversation(2) after one request has failed.
C14_Witness ==
    /\ pc = "idle" /\ call.op = "rollback_conversation" /\ call.num = 2
    /\ Len(pre.conversation_id_prev_queue) = 1
    /\ result = "IndexError"

\* C15: reset_chat sets conversation_id to None, parent_id to an id made
\* for the occasion, and empties the rollback history, so that a rollback
\* right after it has nothing of the earlier conversation to restore.
C15_ResetClears ==
    (pc = "idle" /\ call.op = "reset_chat") =>
        /\ conversation_id = None
        /\ parent_id = uuid4(pre.uuids) /\ uuids = pre.uuids + 1
        /\ conversation_id_prev_queue = <<>>
        /\ parent_id_prev_queue = <<>>

\* What reset_chat does: the two ids, and the history as it was.
C15_ResetKeepsHistory ==
    (pc = "idle" /\ call.op = "reset_chat") =>
        /\ conversation_id = None
        /\ parent_id = uuid4(pre.uuids) /\ uuids = pre.uuids + 1
        /\ History(Self) = History(pre)

\* C16: every payload built by post_messages or ask has action "next" and
\* carries the message list of the caller (for ask, the list made of the
\* prompt); every payload built by continue_write, called by the user or as
\* an automatic continuation, has action "continue" and no messages field.
C16_PayloadAction ==
    gen.data.action # "none" =>
        IF gen.stream = 0 /\ call.op \in {"post_messages", "ask"}
        THEN /\ gen.data.action = "next"
             /\ gen.data.messages = (IF call.op = "ask" THEN "prompt" ELSE "messages")
        ELSE /\ gen.stream > 0 \/ call.op = "continue_write"
             /\ gen.data.action = "continue"
             /\ gen.data.messages = Absent

\* The automatic continuation of an ask has been sent.
C16_Witness ==
    /\ call.op = "ask" /\ gen.stream = 1 /\ pc = "streaming"
    /\ gen.data.action = "continue" /\ gen.data.messages = Absent

\* The caller has stopped consuming a stream before its end.
Abandoned == pc = "ended" /\ result = "abandoned"

\* C17: when the caller stops consuming a response stream before [DONE]
\* and drops or closes the generator, the connection of the request is
\* released: no abandoned call holds a response open, in Chatbot and in
\* AsyncChatbot.
C17_Released == Abandoned => gen.open = 0

\* The part of C17 for AsyncChatbot, whose request is made in an async with.
C17_AsyncReleased == (client = "AsyncChatbot" /\ Abandoned) => gen.open = 0

\* Chatbot closes no response: an abandoned call holds the one it was reading.
C17_ChatbotHolds == (client = "Chatbot" /\ Abandoned) => gen.open >= 1

\* The line carries an event with message.content whose author is not the
\* assistant.
NotAssistant(raw) ==
    LET p == ChatbotParsed[raw]
    IN  /\ p.reaches /\ p.value # JSONDecodeError
        /\ ~LacksContent(p.value) /\ p.value.role # "assistant"

\* The ids and the finish reason that the end of the stream would commit
\* are those of the last delta handed over, or of the payload if there is
\* none.
AsLastDelta ==
    IF yielded = <<>>
    THEN /\ gen.cid = gen.data.conversation_id /\ gen.pid = gen.data.parent_message_id
         /\ gen.finish_details = None
    ELSE /\ gen.cid = LastDelta.conversation_id /\ gen.pid = LastDelta.parent_id
         /\ gen.finish_details = LastDelta.finish_details

\* C18: in the loop of Chatbot.__send_request and in that of
\* AsyncChatbot.__send_request, an event that has message.content and whose
\* author role is not "assistant" is passed over: no delta is yielded for
\* it, no error is raised, the loop goes on, and the ids and finish reason
\* that the end of the stream commits are not changed by it.
C18_RoleFilter ==
    \A k \in DOMAIN wire :
        NotAssistant(wire[k].raw) =>
            /\ wire[k].kind = "skip" /\ ~YieldedFor(wire[k])
            /\ JustRead(k) => pc = "streaming" /\ result = "running" /\ AsLastDelta

\* The same, of the synchronous loop alone.
C18_ChatbotRoleFilter == client = "Chatbot" => C18_RoleFilter

\* The line is the server's error text, in any letter case.
IsServerError(raw) == Lower(raw) = "internal server error"

\* C19: in the loop of Chatbot.__send_request a raw line equal to
\* "internal server error" in any letter case ends the call with a server
\* error raised to the caller (it is not passed over like a line that is
\* not JSON): the deltas yielded before it stay yielded, none is yielded
\* for it and no line is read after it.
C19_ServerError ==
    client = "Chatbot" =>
        \A k \in DOMAIN wire :
            IsServerError(wire[k].raw) =>
                /\ wire[k].kind = "ServerError" /\ ~YieldedFor(wire[k])
                /\ k = Len(wire) /\ pc = "ended" /\ result = "ServerError"
                /\ \A j \in 1..(k - 1) : wire[j].kind = "delta" => YieldedFor(wire[j])
                /\ \A i \in DOMAIN yielded : yielded[i].line < wire[k].line

\* A Chatbot has handed over a delta and has then failed on the error text
\* written with capitals.
C19_Witness ==
    /\ client = "Chatbot" /\ pc = "ended" /\ result = "ServerError"
    /\ Len(wire) = 2 /\ wire[1].kind = "delta"
    /\ wire[2].raw = "Internal Server Error"
    /\ Len(yielded) = 1 /\ yielded[1].line = 1

\* The line begins with "data: ".
HasDataPrefix(raw) == Len(raw) >= 6 /\ SubSeq(raw, 1, 6) = "data: "

\* What the loop of the object's class makes of a line from which nothing
\* is removed.
TakenAsIs(raw) ==
    IF client = "Chatbot"
    THEN LET str  == PyStrBytes(raw)
             line == SubSeq(str, 3, Len(str) - 1)
         IN  IF Lower(line) = "internal server error" THEN Step("ServerError", NoDelta)
             ELSE IF line = "" THEN Step("skip", NoDelta)
             ELSE IF ChatbotIsDone(line) THEN Step("done", NoDelta)
             ELSE LET ev == JsonLoads(Unescape(line))
                  IN  IF ev = JSONDecodeError THEN Step("skip", NoDelta)
                      ELSE ChatbotEvent(ev)
    ELSE IF raw = "" THEN Step("skip", NoDelta)
         ELSE IF AsyncIsDone(raw) THEN Step("done", NoDelta)
         ELSE LET ev == JsonLoads(raw)
              IN  IF ev = JSONDecodeError THEN Step("skip", NoDelta)
                  ELSE IF ~check_fields(ev) THEN Step("ValueError", NoDelta)
                  ELSE Step("delta", DeltaOf(ev))

\* C20: the decoder removes "data: " from a line only when the line begins
\* with it: a line that does not begin with "data: " goes to the [DONE]
\* test and to json.loads as it is, even when "data: " occurs inside it, so
\* that it is decoded, and yielded, as the line it is.
C20_PrefixOnly ==
    \A k \in DOMAIN wire :
        ~HasDataPrefix(wire[k].raw) =>
            /\ wire[k].kind = TakenAsIs(wire[k].raw).kind
            /\ YieldedFor(wire[k]) <=> TakenAsIs(wire[k].raw).kind = "delta"

\* What the two loops do: a line that holds "data: " anywhere loses its
\* first six characters, and only a line without "data: " is taken as it is.
C20_Containment ==
    \A k \in DOMAIN wire :
        ~Contains(wire[k].raw, "data: ") =>
            /\ wire[k].kind = TakenAsIs(wire[k].raw).kind
            /\ YieldedFor(wire[k]) <=> TakenAsIs(wire[k].raw).kind = "delta"

\* The conversation the call is about: the one supplied, else the session's.
Effective == Or(call.conversation_id, pre.conversation_id)

\* The call named a conversation, had no parent_id to go by, and the
\* conversation was not in the mapping.
Looked ==
    /\ Truthy(Effective)
    /\ ~Truthy(Or(call.parent_id, SwitchParent(pre, call.conversation_id)))
    /\ Effective \notin DOMAIN pre.conversation_mapping

\* C21: in Chatbot, when a conversation_id is set, no parent_id is
\* available and the id is not in the mapping, resolution never raises (a
\* request is sent); with lazy loading exactly one history fetch is made
\* and its error is swallowed; and when the id is still not in the mapping
\* afterwards the payload is that of a new conversation: conversation_id
\* None and a parent_message_id generated for it.
C21_Lookup ==
    (client = "Chatbot" /\ JustCalled /\ Looked) =>
        /\ gen.data.action # "none" /\ requests = pre.requests + 1
        /\ lazy_loading => fetched = 1
        /\ Effective \notin DOMAIN conversation_mapping =>
              /\ gen.data.conversation_id = None
              /\ gen.data.parent_message_id = uuid4(pre.uuids)

\* The same, of a Chatbot with lazy loading alone.
C21_LazyLookup == lazy_loading => C21_Lookup

\* Without lazy loading the listing's error ends the call before a request.
C21_EagerRaises ==
    (client = "Chatbot" /\ JustCalled /\ Looked /\ ~lazy_loading /\ gen.data.action = "none") =>
        result = "HTTPError" /\ requests = pre.requests /\ fetched = 1

\* The lookup has rebuilt the mapping from the listing and the histories.
Rebuilt == fetched = 1 + Cardinality(DOMAIN ServerHistory)

\* C22: in AsyncChatbot.post_messages and AsyncChatbot.continue_write, when
\* the conversation_id is still absent from the mapping after the mapping
\* has been rebuilt, the call goes on as a new conversation: a request is
\* sent whose conversation_id is None and whose parent_message_id is an id
\* generated for it.
C22_AsyncNew ==
    (client = "AsyncChatbot" /\ JustCalled /\ Looked /\ Rebuilt
     /\ Effective \notin DOMAIN conversation_mapping) =>
        /\ gen.data.action # "none" /\ requests = pre.requests + 1
        /\ gen.data.conversation_id = None
        /\ gen.data.parent_message_id = uuid4(pre.uuids)

\* What AsyncChatbot does then: the subscript raises and nothing is sent.
C22_AsyncKeyError ==
    (client = "AsyncChatbot" /\ JustCalled /\ Looked /\ Rebuilt
     /\ Effective \notin DOMAIN conversation_mapping) =>
        /\ pc = "ended" /\ result = "KeyError"
        /\ gen.data.action = "none" /\ requests = pre.requests
        /\ uuids = pre.uuids

\* The pair of ids of the payload of the last request.
PayloadPair == <<gen.data.conversation_id, gen.data.parent_message_id>>

\* C23: the pair of ids of the payload of every request is pushed on the
\* rollback history before the request goes to the transport: from the
\* request on, whether the POST fails, its status is not 2xx or the stream
\* fails later, the pair is the last entry of the history, one entry has
\* been added per request of the call, and a rollback would pop that pair.
C23_PushedFirst ==
    (client = "Chatbot" /\ pc # "idle" /\ gen.data.action # "none") =>
        /\ Len(History(Self)) = Len(History(pre)) + gen.stream + 1
        /\ History(Self)[Len(History(Self))] = PayloadPair
        /\ SubSeq(History(Self), 1, Len(History(pre))) = History(pre)
        /\ LET r == rollback(Self, 1)
           IN  r.error = "none" /\ <<r.self.conversation_id, r.self.parent_id>> = PayloadPair

\* The POST of a request met no server, and the pair is in the history.
C23_Witness ==
    /\ client = "Chatbot" /\ pc = "ended" /\ result = "ConnectionError"
    /\ last = NoLine /\ gen.stream = 0 /\ gen.data.action = "next"
    /\ pre.parent_id_prev_queue = <<>>
    /\ parent_id_prev_queue = <<gen.data.parent_message_id>>

\* The ids a stream ends with: those of the last delta it yielded, or those
\* of the payload when it yielded none.
FinalPair ==
    LET own == SelectSeq(yielded, LAMBDA y : y.stream = gen.stream)
    IN  IF own = <<>> THEN PayloadPair
        ELSE <<own[Len(own)].delta.conversation_id, own[Len(own)].delta.parent_id>>

\* The first request of the call has failed: at the POST, or on its stream.
FirstRequestFailed ==
    /\ pc = "ended" /\ gen.stream = 0 /\ gen.data.action # "none"
    /\ result \in {"HTTPError", "ConnectionError", "ServerError", "ValueError"}

\* The mapping is the one resolution left.
AsResolved ==
    \E server \in Servers :
        conversation_mapping =
            ChatbotResolve(pre, lazy_loading, call.conversation_id, call.parent_id,
                           server).conversation_mapping

\* C24: when the stream of a request of a Chatbot ends normally ([DONE] or
\* the stream is closed), the mapping records final conversation_id ->
\* final parent_id and the ids of the session are that pair, the final ids
\* being those of the last delta yielded, or of the payload when no delta
\* was yielded; when the request fails with an error the mapping is as
\* resolution left it.
C24_Commit ==
    client = "Chatbot" =>
        /\ (pc = "ended" /\ result = "ok") =>
              /\ FinalPair[1] \in DOMAIN conversation_mapping
              /\ conversation_mapping[FinalPair[1]] = FinalPair[2]
              /\ <<conversation_id, parent_id>> = FinalPair
        /\ FirstRequestFailed => AsResolved

\* The part of C24 about the mapping alone.
C24_MappingCommit ==
    client = "Chatbot" =>
        /\ (pc = "ended" /\ result = "ok") =>
              /\ FinalPair[1] \in DOMAIN conversation_mapping
              /\ conversation_mapping[FinalPair[1]] = FinalPair[2]
              /\ parent_id = FinalPair[2]
              /\ conversation_id = IF FinalPair[1] # None THEN FinalPair[1] ELSE pre.conversation_id
        /\ FirstRequestFailed => AsResolved

\* An automatic continuation has been sent.
ContinuationSent == gen.stream > 0 /\ gen.data.action # "none"

\* The continuation is about the conversation of the response that was cut.
C25_SameConversation ==
    ContinuationSent =>
        /\ EarlierDeltas # <<>>
        /\ gen.data.conversation_id = EarlierDeltas[Len(EarlierDeltas)].delta.conversation_id

\* C25: the request of an automatic continuation carries the
\* conversation_id of the response that was cut and the model of the
\* payload of the request it continues, in Chatbot and in AsyncChatbot.
C25_SameModel ==
    /\ C25_SameConversation
    /\ ContinuationSent => gen.data.model = PayloadModel(call.model, config)

\* What the two clients send: Chatbot the model_slug of the last delta, or
\* the configured model or the default when the delta has none;
\* AsyncChatbot the configured model or the default.
C25_ModelSent ==
    ContinuationSent =>
        gen.data.model =
            PayloadModel(IF client = "Chatbot" THEN EarlierDeltas[Len(EarlierDeltas)].delta.model
                         ELSE None, config)

\* C26: with auto_continue a turn spans as many continuation requests as
\* needed: whenever a request of the call, the first or a continuation,
\* ends with the finish reason "max_tokens", one more continuation is sent,
\* so that the call ends normally only on a stream whose last finish reason
\* is not "max_tokens"; in Chatbot and in AsyncChatbot.
C26_Chains ==
    (pc = "ended" /\ result = "ok" /\ call.auto_continue) =>
        LastFinish(gen.stream) # "max_tokens"

\* The same, of AsyncChatbot alone, whose continuation passes auto_continue on.
C26_AsyncChains == client = "AsyncChatbot" => C26_Chains

\* The continuation of a Chatbot runs without auto_continue: the call ends
\* with it, whatever its finish reason.
C26_ChatbotOnce ==
    (client = "Chatbot" /\ gen.stream > 0) => gen.stream = 1 /\ ~gen.auto_continue

\* A call without auto_continue has been consumed to its end.
Completed == pc = "ended" /\ result = "ok" /\ ~call.auto_continue

\* The ids of the session after a rollback_conversation(1) from here.
AfterRollback ==
    LET r == rollback(Self, 1).self IN <<r.conversation_id, r.parent_id>>

\* C27: after every completed post_messages, ask or continue_write call
\* without auto_continue, whatever its arguments, rollback_conversation(1)
\* sets the session's conversation_id and parent_id to the pair the session
\* held right before the call.
C27_RestoresSession ==
    (client = "Chatbot" /\ Completed) =>
        AfterRollback = <<pre.conversation_id, pre.parent_id>>

\* What the rollback restores is the pair of the payload, which is the
\* session's pair when the call supplied no id and the session had both.
C27_RestoresPayload ==
    (client = "Chatbot" /\ Completed) =>
        /\ AfterRollback = PayloadPair
        /\ (/\ ~Truthy(call.conversation_id) /\ ~Truthy(call.parent_id)
            /\ Truthy(pre.conversation_id) /\ Truthy(pre.parent_id))
           => AfterRollback = <<pre.conversation_id, pre.parent_id>>

\* C28: the mapping is only a fallback.  Whenever the conversation a call
\* of a Chatbot is about is the session's own and the session's parent_id
\* is set, the payload's parent_message_id is the supplied parent_id, else
\* the session's parent_id, whatever the mapping holds for the
\* conversation; the mapping is neither changed nor fetched.
C28_Fallback ==
    (/\ client = "Chatbot" /\ JustCalled /\ gen.data.action # "none"
     /\ Effective = pre.conversation_id /\ Truthy(pre.parent_id)) =>
        /\ gen.data.parent_message_id = Or(call.parent_id, pre.parent_id)
        /\ gen.data.conversation_id = pre.conversation_id
        /\ fetched = 0
        /\ conversation_mapping = pre.conversation_mapping

\* A call on the session's own conversation has sent the parent_id it was
\* given while the mapping holds another one for the conversation.
C28_Witness ==
    /\ client = "Chatbot" /\ JustCalled /\ pc = "streaming"
    /\ pre.conversation_id = "c1" /\ pre.parent_id = "p1"
    /\ call.conversation_id = "c1" /\ call.parent_id = "q1"
    /\ "c1" \in DOMAIN pre.conversation_mapping
    /\ pre.conversation_mapping["c1"] = "p1"
    /\ gen.data.parent_message_id = "q1"

\* C29: the model of the payload is chosen by strict precedence: the model
\* argument when it is not empty, else the configured "model" when it is
\* not empty, else the default of the plan ("text-davinci-002-render-paid"
\* when the configured paid is truthy, "text-davinci-002-render-sha"
\* otherwise); the same for post_messages and continue_write.
C29_ModelPrecedence ==
    (gen.data.action # "none" /\ gen.stream = 0) =>
        gen.data.model =
            IF call.model \notin {None, ""} THEN call.model
            ELSE IF config.model \notin {None, ""} THEN config.model
            ELSE IF config.paid THEN "text-davinci-002-render-paid"
            ELSE "text-davinci-002-render-sha"

\* continue_write was given an empty model on a session configured with
\* one, and has sent the configured model.
C29_Witness ==
    /\ call.op = "continue_write" /\ call.model = ""
    /\ config.model = "gpt-3.5" /\ config.paid
    /\ pc = "streaming" /\ gen.data.model = "gpt-3.5"

\* A request of the call has failed: its status was not 2xx, its stream
\* carried the server's error text, or an event lacked a field.
RequestFailed ==
    /\ pc = "ended" /\ gen.data.action # "none"
    /\ result \in {"HTTPError", "ServerError", "ValueError"}

\* The deltas handed to the caller are those of the delta lines read, each
\* once and in their order.
EachOnce ==
    LET deltas == SelectSeq(wire, LAMBDA w : w.kind = "delta")
    IN  /\ Len(yielded) = Len(deltas)
        /\ \A i \in DOMAIN yielded :
              /\ yielded[i].stream = deltas[i].stream
              /\ yielded[i].line = deltas[i].line

\* C30: no retries.  When a request fails (a status that is not 2xx, the
\* server's error text on a line, an event with a missing field) the error
\* reaches the caller where it occurred: nothing more is read, the deltas
\* yielded before it are neither retracted nor yielded again, and the call
\* has sent no request beyond the failed one.
C30_NoRetry ==
    RequestFailed =>
        /\ requests = pre.requests + gen.stream + 1
        /\ Len(History(Self)) = Len(History(pre)) + gen.stream + 1
        /\ EachOnce
        /\ IF result = "HTTPError" THEN StreamUnread /\ gen.lines = 0
           ELSE /\ wire # <<>> /\ wire[Len(wire)].kind = result
                /\ wire[Len(wire)].stream = gen.stream
                /\ last.kind = result
                /\ \A k \in 1..(Len(wire) - 1) : wire[k].kind \in {"delta", "skip", "done"}

\* The continuation of a response that was cut has failed on the server's
\* error text: the delta of the first stream is still the caller's.
C30_Witness ==
    /\ client = "Chatbot" /\ pc = "ended" /\ result = "ServerError"
    /\ gen.stream = 1 /\ requests = 2
    /\ Len(yielded) = 1 /\ yielded[1].stream = 0
    /\ Len(wire) = 3

\* C33: after any sequence of requests (successful, failed or abandoned),
\* reset_chat and rollback_conversation calls of a Chatbot, failing
\* rollbacks included, the conversation-id history and the parent-id history
\* have the same length, and entry i of one was appended by the same request
\* as entry i of the other.
C33_Aligned ==
    /\ Len(conversation_id_prev_queue) = Len(parent_id_prev_queue)
    /\ Len(pushers.conversation_id) = Len(conversation_id_prev_queue)
    /\ Len(pushers.parent_id) = Len(parent_id_prev_queue)
    /\ pushers.conversation_id = pushers.parent_id

\* The second request is streaming after the entries of the first were
\* popped: the one entry of each history is its own.
C33_Witness ==
    /\ pc = "streaming" /\ requests = 2
    /\ pushers.conversation_id = <<2>> /\ pushers.parent_id = <<2>>
    /\ Len(conversation_id_prev_queue) = 1 /\ Len(parent_id_prev_queue) = 1

\* rollback_conversation(n) has just raised.
RollbackFailed == pc = "idle" /\ call.op = "rollback_conversation" /\ result = "IndexError"

\* C34: a failing rollback is not atomic. rollback_conversation(n) on a
\* history of k < n entries pops all k entries before it raises: the history
\* is left empty and the session at the oldest pair pushed; with k = 0 it
\* raises with the ids of the session unchanged.
C34_NotAtomic ==
    RollbackFailed =>
        LET h == History(pre)
        IN  /\ Len(h) < call.num
            /\ History(Self) = <<>>
            /\ <<conversation_id, parent_id>> =
                   IF h = <<>> THEN <<pre.conversation_id, pre.parent_id>> ELSE h[1]
            /\ conversation_mapping = pre.conversation_mapping

\* rollback_conversation(2) on a history of one entry has raised, and has
\* moved the session to that entry.
C34_Witness ==
    /\ RollbackFailed /\ call.num = 2
    /\ Len(History(pre)) = 1
    /\ <<conversation_id, parent_id>> = History(pre)[1]
    /\ <<conversation_id, parent_id>> # <<pre.conversation_id, pre.parent_id>>
    /\ conversation_id_prev_queue = <<>>

\* The pair of ids that resolution gives the payload of the first request of
\* the call, from the session as the call found it.
FirstPayloadPairs ==
    {<<r.conversation_id, r.parent_id>> :
        r \in {ChatbotResolve(pre, lazy_loading, call.conversation_id, call.parent_id, server) :
                  server \in Servers}}

\* The session after a rollback_conversation(n) from here.
RollbackFrom(n) == rollback(Self, n)

\* C35: every request sent to the conversation endpoint, an automatic
\* continuation included, pushes exactly one entry on the history. A call
\* with auto_continue whose response was cut has therefore grown the history
\* by two: a rollback of 1 from there leaves the session at the ids of the
\* payload of the continuation (those of the last delta of the response that
\* was cut), and it takes a rollback of 2 to return to the ids the call
\* itself sent and to the history the call found.
C35_OnePerRequest ==
    (client = "Chatbot" /\ pc # "idle") =>
        /\ Len(History(Self)) - Len(History(pre)) = requests - pre.requests
        /\ \A i \in 1..(requests - pre.requests) :
              pushers.parent_id[Len(History(pre)) + i] = pre.requests + i
        /\ ContinuationSent =>
              LET one == RollbackFrom(1)
                  two == RollbackFrom(2)
                  cut == EarlierDeltas[Len(EarlierDeltas)].delta
              IN  /\ call.auto_continue
                  /\ Len(History(Self)) = Len(History(pre)) + 2
                  /\ one.error = "none"
                  /\ <<one.self.conversation_id, one.self.parent_id>> = PayloadPair
                  /\ PayloadPair = <<cut.conversation_id, cut.parent_id>>
                  /\ History(one.self) # History(pre)
                  /\ two.error = "none"
                  /\ <<two.self.conversation_id, two.self.parent_id>> \in FirstPayloadPairs
                  /\ History(two.self) = History(pre)

\* The continuation of a call on a fresh session has been sent: the history
\* holds the pair of the call, with a generated parent, and the pair of the
\* continuation.
C35_Witness ==
    /\ client = "Chatbot" /\ pc = "streaming" /\ ContinuationSent
    /\ pre.conversation_id_prev_queue = <<>>
    /\ History(Self) = <<<<None, uuid4(pre.uuids)>>, <<"c2", "p2">>>>
    /\ pushers.parent_id = <<1, 2>>

\* The first request of a call that switched conversation has not reached
\* the end of its stream: it has raised, or the caller has stopped reading.
SwitchCut == pc = "ended" /\ Switched /\ gen.stream = 0 /\ result # "ok"

\* C36: the session is written before a failure can occur. When
\* post_messages or continue_write is called with a conversation_id other
\* than the session's and the request then fails (no connection, a status
\* that is not 2xx, an error on the stream) or is abandoned before the end
\* of the stream, the session keeps its old conversation_id and has its
\* parent_id cleared to None; the next call of a Chatbot without arguments
\* takes the parent of the old conversation from the mapping or the
\* server's history, and starts a new conversation when neither has it.
C36_ClearedOnFailure ==
    SwitchCut =>
        /\ conversation_id = pre.conversation_id
        /\ parent_id = None
        /\ client = "Chatbot" =>
              \A server \in Servers :
                 LET r == ChatbotResolve(Self, lazy_loading, None, None, server)
                 IN  r.error = "none" =>
                        IF Truthy(conversation_id) /\ conversation_id \in DOMAIN r.conversation_mapping
                        THEN /\ r.conversation_id = conversation_id
                             /\ r.parent_id = r.conversation_mapping[conversation_id]
                        ELSE /\ r.conversation_id = None
                             /\ r.parent_id = uuid4(uuids)

\* A session at (c1, p1) was called with conversation c2, the POST got a
\* status that is not 2xx, and the session is at (c1, None).
C36_Witness ==
    /\ SwitchCut /\ client = "Chatbot" /\ result = "HTTPError"
    /\ pre.conversation_id = "c1" /\ pre.parent_id = "p1"
    /\ call.conversation_id = "c2"
    /\ conversation_id = "c1" /\ parent_id = None

\* C31: sessions of different objects do not interfere. Whatever the
\* order of the operations on two Chatbot objects, an operation on one of
\* them leaves the conversation_id, the parent_id, the rollback history and
\* the conversation mapping of the other as they were.
C31_Independent ==
    bots.who # 0 => View(bots, Other(bots.who)) = bots.seen

\* Both objects have a history and a mapping of their own, and the last
\* operation was on the second.
C31_Witness ==
    /\ bots.who = 2
    /\ Len(View(bots, 1)[5]) = 1 /\ Len(View(bots, 2)[5]) = 1
    /\ View(bots, 1)[5] # View(bots, 2)[5]
    /\ DOMAIN View(bots, 1)[3] # {} /\ DOMAIN View(bots, 2)[3] # {}
    /\ View(bots, 1)[3] # View(bots, 2)[3]

\* The calls made on the first object, and the pair of ids of the payload
\* of one of them.
Calls == bots.calls[1]
Sent(c) == <<c.gen.data.conversation_id, c.gen.data.parent_message_id>>

\* Call n was started while call m, the call before it, was suspended at a
\* yield, and no call has ended between the two starts.
Overlap(m, n) ==
    /\ m \in 1..Len(Calls) /\ n = m + 1 /\ n \in 1..Len(Calls)
    /\ m \in Calls[n].during
    /\ Calls[m].during \subseteq Calls[n].during

\* C32: one session is not safe for calls that overlap, and nothing in it
\* serializes them. A call started while the stream of the call before it
\* has not ended, the earlier one having supplied no id, finds the ids of
\* the session as the earlier call found them, whatever the earlier stream
\* has carried since; when it supplies no id either and the session has a
\* parent_id, its payload carries the same pair of ids. Each of the calls
\* that sent a request has its pair in the history, in the order of the
\* starts. When a stream ends, the ids of the session are the final ids of
\* that stream, whichever call started first.
C32_Overlapping ==
    /\ \A m \in 1..Len(Calls), n \in 1..Len(Calls) :
          (Overlap(m, n) /\ Calls[m].conversation_id = None) =>
              /\ Calls[n].found = Calls[m].found
              /\ (Calls[n].conversation_id = None /\ Truthy(Calls[m].found[2])) =>
                     /\ Sent(Calls[n]) = Sent(Calls[m])
                     /\ Sent(Calls[n]) = Calls[m].found
                     /\ Calls[n].history = Calls[m].history + 1
    /\ \A n \in 1..Len(Calls) :
          Calls[n].gen.data.action # "none" =>
              /\ Deref(bots, 1).conversation_id_prev_queue[Calls[n].history + 1] = Sent(Calls[n])[1]
              /\ Deref(bots, 1).parent_id_prev_queue[Calls[n].history + 1] = Sent(Calls[n])[2]
    /\ bots.obj[1].ended # 0 =>
          LET g == Calls[bots.obj[1].ended].gen
          IN  /\ bots.obj[1].parent_id = g.pid
              /\ g.cid # None => bots.obj[1].conversation_id = g.cid
              /\ Deref(bots, 1).conversation_mapping[g.cid] = g.pid

\* Two calls without ids on a session at (c1, n1), the second started
\* before the stream of the first ended: both have sent (c1, n1), both
\* pairs are in the history, the second stream ended at (c2, p2) and the
\* first, which ended after it, has left the session at (c1, p1).
C32_Witness ==
    /\ Len(Calls) = 2 /\ Overlap(1, 2)
    /\ Sent(Calls[1]) = <<"c1", "n1">> /\ Sent(Calls[2]) = <<"c1", "n1">>
    /\ Deref(bots, 1).parent_id_prev_queue = <<"n1", "n1">>
    /\ Calls[1].result = "ok" /\ Calls[2].result = "ok"
    /\ bots.obj[1].ended = 1
    /\ <<Calls[2].gen.cid, Calls[2].gen.pid>> = <<"c2", "p2">>
    /\ <<bots.obj[1].conversation_id, bots.obj[1].parent_id>> = <<"c1", "p1">>

\* The ids of the object of asyncChatGPT.
LegacyPair(l) == <<l.self.conversation_id, l.self.parent_id>>

\* rollback_conversation() of asyncChatGPT has just returned.
LegacyRolledBack == legacy.op = "rollback_conversation" /\ legacy.result = "ok"

\* C37: rollback_conversation of asyncChatGPT.Chatbot has one level. It
\* sets the ids to the pair saved at the start of the most recent
\* get_chat_response; a second rollback right after the first changes
\* nothing; no number of rollbacks reaches the pair saved by an earlier
\* request.
C37_SingleLevel ==
    LegacyRolledBack =>
        /\ legacy.requests > 0
        /\ LegacyPair(legacy) = legacy.snapshot
        /\ LegacyPair(legacy_rollback(legacy)) = LegacyPair(legacy)
        /\ legacy_rollback(legacy).self = legacy.self
        /\ legacy_rollback(legacy_rollback(legacy)).self = legacy.self

\* Two requests were made from different ids, and two rollbacks in a row
\* have left the ids the second request started from, not those of the
\* first.
C37_Witness ==
    /\ LegacyRolledBack /\ legacy.rolls = 2
    /\ legacy.requests = 2
    /\ legacy.older # <<>> /\ legacy.older # legacy.snapshot
    /\ LegacyPair(legacy) = legacy.snapshot
    /\ LegacyPair(legacy) # legacy.older

\* rollback(conversation_id, num) of V2 has just returned.
V2RolledBack == conversations.pc = "idle" /\ conversations.op = "rollback"

\* The conversations other than the one of the last call are as they were.
OthersKept ==
    /\ DOMAIN conversations.conversations = DOMAIN conversations.before
    /\ \A id \in DOMAIN conversations.before :
          id # conversations.conversation_id =>
              conversations.conversations[id] = conversations.before[id]

\* The list of the conversation of the last call has lost its latest n
\* messages, or all of them when it had fewer.
LatestRemoved(n) ==
    LET was == conversations.before[conversations.conversation_id]
        r   == IF n < Len(was) THEN n ELSE Len(was)
    IN  conversations.conversations[conversations.conversation_id] = SubSeq(was, 1, Len(was) - r)

\* C38: Conversations.rollback(conversation_id, num) of V2 removes the
\* latest min(num, k) messages of a conversation of k messages for every
\* num >= 0, so that num = 0 removes nothing, keeps the other messages in
\* their order, and changes nothing for a conversation_id it does not know.
C38_RollbackRemoves ==
    V2RolledBack =>
        IF conversations.conversation_id \in DOMAIN conversations.before
        THEN LatestRemoved(conversations.num) /\ OthersKept
        ELSE conversations.conversations = conversations.before

\* The same for num >= 1, and for the conversation_id that is not known.
C38_PositiveNum ==
    (V2RolledBack /\ conversations.num >= 1) =>
        IF conversations.conversation_id \in DOMAIN conversations.before
        THEN LatestRemoved(conversations.num) /\ OthersKept
        ELSE conversations.conversations = conversations.before

\* With num = 0 the slice is messages[:0]: the conversation is emptied.
C38_ZeroEmpties ==
    (/\ V2RolledBack /\ conversations.num = 0
     /\ conversations.conversation_id \in DOMAIN conversations.before) =>
        /\ conversations.conversations[conversations.conversation_id] = <<>>
        /\ OthersKept

\* The messages of the conversation of the last call, when it began.
Stored == conversations.before[conversations.conversation_id]

\* What is left of a list once its oldest n messages are dropped.
Suffix(list, n) == SubSeq(list, n + 1, Len(list))

\* get(conversation_id) is running, or has just returned.
InGet == conversations.op = "get"
GetReturned == conversations.op = "get" /\ conversations.pc = "idle"

\* C39: Conversations.get(conversation_id) of V2 terminates with the
\* default CONVERSATION_BUFFER. It calls itself at most once per message
\* stored, each time after dropping the one oldest message, the rendering
\* of every list it went through being over 4000 - CONVERSATION_BUFFER
\* tokens; it returns the rendering of the messages that remain, which is
\* within that limit, and what it leaves stored is a suffix of what was
\* stored before the call. For a conversation_id it does not know it
\* returns the empty string and changes nothing.
C39_GetTerminates ==
    InGet =>
        IF conversations.conversation_id \notin DOMAIN conversations.before
        THEN /\ conversations.pc = "idle" /\ conversations.frames = 1
             /\ conversations.result = ""
             /\ conversations.conversations = conversations.before
        ELSE LET dropped == IF conversations.pc = "idle" THEN conversations.frames - 1
                            ELSE conversations.frames
                 left    == conversations.conversations[conversations.conversation_id]
             IN  /\ conversations.frames <= Len(Stored) + 1
                 /\ dropped <= Len(Stored)
                 /\ left = Suffix(Stored, dropped)
                 /\ \A n \in 0..(dropped - 1) :
                       Encoded(Suffix(Stored, n)) > 4000 - CONVERSATION_BUFFER
                 /\ OthersKept
                 /\ conversations.pc = "idle" =>
                       /\ Encoded(left) <= 2500
                       /\ conversations.result = Rendering(left)

\* get has dropped the oldest of three messages and returned the two that
\* are left.
C39_Witness ==
    /\ GetReturned
    /\ conversations.conversation_id \in DOMAIN conversations.before
    /\ Len(Stored) = 3 /\ conversations.frames = 2
    /\ conversations.conversations[conversations.conversation_id] = Suffix(Stored, 1)
    /\ conversations.result = "User: short<|im_sep|>\n\nUser: short<|im_sep|>\n\n"

====
